---- MODULE Spec2Model ----
(***************************************************************************)
(* Model of the intelligence layer of the tmux orchestrator                *)
(* (src/advanced_features.py): the health supervision loop of              *)
(* AgentHealthMonitor, the monitoring loop of AdvancedMonitoring and the   *)
(* workload bookkeeping of IntelligentTaskAssignment, with the quality     *)
(* gates and the performance store it reads.                               *)
(*                                                                         *)
(* Spec        one supervision thread; every handler is one atomic action. *)
(* SpecConc    two supervision threads over the same registry, stepping    *)
(*             statement by statement.                                     *)
(* SpecStop    the health loop and the metrics loop, each in a thread the  *)
(*             interpreter keeps scheduling, with their stop flags.        *)
(* SpecAssign  two callers of assign_optimal_task, stepping statement by   *)
(*             statement.                                                  *)
(* SpecScan    the marker scan of check_agent_health over captured texts.  *)
(* SpecGates   AutomatedQualityGates: rule registration and gate runs.     *)
(* SpecEval    one registered rule and one gate run, over every operator,  *)
(*             threshold and context value.                                *)
(* SpecSeq     one caller of assign_optimal_task; every call is one atomic *)
(*             action.                                                     *)
(* SpecLoad    _calculate_workload_factor over workload lists of every     *)
(*             length up to MaxEntries.                                    *)
(* SpecTrend   the agent_metrics table: recording, the performance trend   *)
(*             and the performance factor read from it.                    *)
(* SpecRecord  one supervision thread as in Spec, with the clock running,  *)
(*             so that last_response tells one write from another.         *)
(***************************************************************************)
EXTENDS Integers, Sequences, FiniteSets, TLC

\* ------------------------------------------------------------------ bounds

\* The failed-probe actions stop counting at MaxCount (the code's counter is
\* an unbounded Python int).
MaxCount == 3

\* The explicit max_failures values a caller registers are 1..MaxMaxFailures.
MaxMaxFailures == 2

\* The clock of SpecAssign runs from 0 to MaxTime hours, in steps of TickHours.
MaxTime == 24

TickHours == 12

\* Each caller of SpecAssign makes at most MaxCalls calls.
MaxCalls == 1

\* The captured texts of SpecScan start with 0..MaxPad filler characters.
MaxPad == 6

\* SpecGates follows the first MaxGateCalls calls on the quality gates, which
\* register at most MaxRules rules.
MaxGateCalls == 4

MaxRules == 2

\* SpecSeq follows the first MaxSeqCalls calls of assign_optimal_task.
MaxSeqCalls == 1

\* SpecLoad starts with workload lists of 0..MaxEntries entries and follows
\* the first MaxLoadCalls workload-factor computations.
MaxEntries == 10

MaxLoadCalls == 2

\* SpecTrend records at most MaxRows samples; its clock runs from 0 to
\* MaxTrendHours hours, in steps of TrendTickHours.
MaxRows == 4

MaxTrendHours == 72

TrendTickHours == 72

\* ------------------------------------------------------- program constants

\* config.get("max_failures", 3)
DefaultMaxFailures == 3

\* recent_output[-500:]
Window == 500

\* len("HEALTHY")
MarkerLen == 7

\* timedelta(hours=24)
RetentionHours == 24

\* task.get("complexity", 0.5), in tenths
DefaultComplexity == 5

\* return 0.8, in tenths
DefaultPerformance == 8

\* max(0.1, ...), in tenths
FloorTenths == 1

\* config.get("recovery_strategy", "restart")
DefaultStrategy == "restart"

\* get_agent_performance_trend(agent_name, days=3), the window of the
\* performance factor
PerformanceDays == 3

\* get_agent_performance_trend(self, agent_name, days=7)
DefaultDays == 7

\* ------------------------------------------------------------------ inputs

Agents == {"a1", "a2"}

\* A health_config value is <<v>> when the dict holds the key and <<>> when it
\* does not.
Absent == <<>>

\* "custom" stands for any caller-chosen strategy name: it resolves through
\* recovery_strategies when it is a key there and is unknown otherwise.
StrategyNames == {"restart", "notify_only", "custom"}

\* The health_config dicts callers register: the empty dict (both defaults
\* apply) and every dict that holds both keys.
Configs ==
    {[max_failures |-> Absent, recovery_strategy |-> Absent]} \cup
    [max_failures : {<<n>> : n \in 1..MaxMaxFailures},
     recovery_strategy : {<<s>> : s \in StrategyNames}]

\* Captured pane text, abstracted to its length and the 1-based index at which
\* the only occurrence of the marker starts (0: the marker does not occur).
Outputs ==
    {[len |-> 0, at |-> 0], [len |-> 7, at |-> 1], [len |-> 40, at |-> 0],
     [len |-> 507, at |-> 1], [len |-> 506, at |-> 1], [len |-> 600, at |-> 594]}

\* What TmuxManager.send_message can do: return True, return False
\* (CalledProcessError is caught there), or let another exception through.
SendResults == {"true", "false", "raise"}

\* The steps of restart_agent that can fail, and its two normal endings.
RestartOutcomes ==
    {"interrupt_raise", "relaunch_raise", "send_raise", "send_false", "send_true"}

NotRegistered == [registered |-> FALSE]

NoAgent == "none"

\* The names under which callers put collectors into metrics_collectors.
Collectors == {"c1", "c2"}

\* The project names passed to check_quality_gates.
Projects == {"p1", "p2"}

\* The threads that call assign_optimal_task.
Callers == {"u1", "u2"}

\* A score, kept exact as a fraction with a positive denominator.
Zero == [num |-> 0, den |-> 1]

\* A caller that is in no assign_optimal_task call.
IdleCaller ==
    [pc |-> "idle", task |-> Absent, available |-> <<>>, idx |-> 0,
     agent |-> NoAgent, active_tasks |-> <<>>, best_agent |-> NoAgent,
     best_score |-> Zero, calls |-> 0]

\* The task dicts caller c passes: its id, required_skills (skill -> level in
\* tenths), complexity (tenths) and priority, each of the last three optional.
TasksOf(c) ==
    [id : {c},
     required_skills : {Absent, <<[x |-> 5]>>},
     complexity : {Absent, <<10>>},
     priority : {Absent}]

\* The available_agents lists a caller passes.
AvailableLists == {<<>>, <<"a1">>, <<"a1", "a2">>, <<"a2", "a1">>}

\* The threads that run health_check_loop when start_health_monitoring is
\* called twice.
Threads == {"t1", "t2"}

\* A thread that start_health_monitoring has not created yet.
IdleThread == [pc |-> "idle", agent |-> NoAgent, pos |-> 0, size |-> 0,
               loaded |-> 0, probed |-> {}]

\* ------------------------------------------------------------------- state

VARIABLES
    health_checks,        \* AgentHealthMonitor.health_checks: agent -> record
    health_keys,          \* the insertion order of the keys of health_checks
    recovery_strategies,  \* the keys of AgentHealthMonitor.recovery_strategies
    monitoring_active,    \* AgentHealthMonitor.monitoring_active
    pc,                   \* where the health_check_loop thread stands
    iter_pos,             \* check_all_agents: entries the dict iterator has yielded
    iter_size,            \* check_all_agents: the dict size the iterator started with
    cur,                  \* check_all_agents: agent_name of the current iteration
    event,                \* history: the operation that produced this state
    streak,               \* history: failed probes of an agent since its counter was last set to 0
    pending,              \* history: agent whose failed probe reached the threshold, recovery not yet decided
    checked,              \* history: agents probed in the current cycle
    thr,                  \* SpecConc: per supervision thread, where it stands and its locals
    failed_probes,        \* SpecConc history: failed probes of an agent since its counter was last reset
    metrics_collectors,   \* AdvancedMonitoring.metrics_collectors: its keys, in insertion order
    metrics_active,       \* AdvancedMonitoring.monitoring_active
    mpc,                  \* where the monitoring_loop thread stands
    m_pos,                \* collect_all_metrics: entries the dict iterator has yielded
    m_size,               \* collect_all_metrics: the dict size the iterator started with
    m_cycles,             \* history: whether monitoring_loop has finished a cycle
    agent_capabilities,   \* IntelligentTaskAssignment.agent_capabilities: agent -> Absent or <<skill map>>
    workload_tracker,     \* IntelligentTaskAssignment.workload_tracker: agent -> list of entries
    avg_quality_score,    \* what the 3-day trend of the store holds per agent: Absent or <<tenths>>
    now,                  \* datetime.now(), in hours
    asg,                  \* SpecAssign: per caller, where its assign_optimal_task call stands
    appended,             \* SpecAssign history: the <<agent, entry>> pairs the calls have appended
    recent_output,        \* SpecScan: what capture_pane returned, a sequence of characters
    judged,               \* SpecScan: what check_agent_health made of recent_output
    quality_rules,        \* AutomatedQualityGates.quality_rules
    quality_history,      \* AutomatedQualityGates.quality_history: project -> list of results
    gate_event,           \* SpecGates history: the last call, its arguments and what it returned
    assign_event,         \* SpecSeq, SpecLoad history: the calls made and what they computed
    agent_metrics,        \* the rows of the agent_metrics table, in insertion order
    trend_event           \* SpecTrend history: the last call on the store and what it returned

\* The capture of a probe and its verdict.
scanVars == <<recent_output, judged>>

\* The state of AutomatedQualityGates, with its history.
gateVars == <<quality_rules, quality_history, gate_event>>

\* The history of the sequential assignment calls.
seqVars == <<assign_event>>

\* The metrics store, with its history.
trendVars == <<agent_metrics, trend_event>>

\* The state of IntelligentTaskAssignment and its callers.
assignVars ==
    <<agent_capabilities, workload_tracker, avg_quality_score, now, asg, appended>>

\* The state of AdvancedMonitoring and its loop thread.
metricsVars == <<metrics_collectors, metrics_active, mpc, m_pos, m_size, m_cycles>>

\* The state of AgentHealthMonitor and its single loop thread, with its history.
supervisionVars ==
    <<health_checks, health_keys, recovery_strategies, monitoring_active,
      pc, iter_pos, iter_size, cur, event, streak, pending, checked>>

\* The variables the single-thread supervision actions leave alone.
outsideSupervision ==
    <<thr, failed_probes, metricsVars, assignVars, scanVars, gateVars, seqVars, trendVars>>

\* The variables the actions of SpecConc leave alone.
outsideConc ==
    <<health_keys, recovery_strategies, pc, iter_pos, iter_size, cur, event,
      streak, pending, checked, metricsVars, assignVars, scanVars, gateVars, seqVars, trendVars>>

vars ==
    <<health_checks, health_keys, recovery_strategies, monitoring_active,
      pc, iter_pos, iter_size, cur, event, streak, pending, checked,
      thr, failed_probes, metricsVars, assignVars, scanVars, gateVars, seqVars, trendVars>>

Registered(a) == health_checks[a] # NotRegistered

RegisteredAgents == {a \in Agents : Registered(a)}

Failures(a) == health_checks[a].consecutive_failures

\* config.get("max_failures", 3)
MaxFailuresOf(config) ==
    IF config.max_failures = Absent THEN DefaultMaxFailures ELSE config.max_failures[1]

\* Mutant: a name that is neither restart nor notify_only is taken as restart.
StrategyOrRestart(config) ==
    IF config.recovery_strategy = <<"notify_only">> THEN "notify_only"
    ELSE "restart"

\* config.get("recovery_strategy", "restart")
StrategyOf(config) ==
    IF config.recovery_strategy = Absent THEN DefaultStrategy
    ELSE config.recovery_strategy[1]

\* "HEALTHY" in recent_output[-500:]
MarkerFound(out) ==
    LET first == IF out.len > Window THEN out.len - Window + 1 ELSE 1
    IN  /\ out.at # 0
        /\ out.at + MarkerLen - 1 <= out.len
        /\ out.at >= first

\* Mutant: the failure is counted in the branch and again in the except clause.
IncrementedTwice(n) == n + 2

\* health_info["consecutive_failures"] += 1
Incremented(n) == n + 1

\* Mutant: recovery starts on the first failure, whatever max_failures says.
ThresholdReachedOnAnyFailure(failures, max_failures) == failures >= 1

\* Mutant: the comparison is strict, so recovery starts one failure late.
ThresholdExceeded(failures, max_failures) == failures > max_failures

\* Mutant: recovery starts only when the counter is exactly max_failures.
ThresholdMet(failures, max_failures) == failures = max_failures

\* if failures >= max_failures:
ThresholdReached(failures, max_failures) == failures >= max_failures

\* The outcomes of restart_agent that end in its except clause.
RestartRaised(outcome) ==
    outcome \in {"interrupt_raise", "relaunch_raise", "send_raise"}

\* Mutant: the reset sits in a finally clause and runs on the raising paths too.
RestartResetsAlways(outcome) == TRUE

\* Mutant: the reset depends on what send_message returned.
RestartResetsWhenDelivered(outcome) == outcome = "send_true"

\* Mutant: the reset is skipped only when the interrupt raised.
RestartResetsAfterInterrupt(outcome) == outcome # "interrupt_raise"

\* consecutive_failures = 0 is the statement after the three steps of the try
\* block: it runs when none of them raised, whatever send_message returned.
RestartResets(outcome) == ~RestartRaised(outcome)

\* Mutant: the reinitialization message is sent first.
RestartStepsSendFirst(a, outcome) ==
    LET send == <<[op |-> "send_reinit", agent |-> a]>>
        interrupt == send \o <<[op |-> "interrupt", agent |-> a]>>
        relaunch == interrupt \o
                    <<[op |-> "wait", agent |-> a], [op |-> "relaunch", agent |-> a],
                      [op |-> "wait", agent |-> a]>>
    IN  IF outcome = "send_raise" THEN send
        ELSE IF outcome = "interrupt_raise" THEN interrupt
        ELSE relaunch

\* What restart_agent does to the agent's pane, in order, up to the step that
\* raises: the interrupt, time.sleep(2), the relaunch, time.sleep(5) and the
\* send_message of reinit_msg, which names the agent.
RestartSteps(a, outcome) ==
    LET interrupt == <<[op |-> "interrupt", agent |-> a]>>
        relaunch == interrupt \o
                    <<[op |-> "wait", agent |-> a], [op |-> "relaunch", agent |-> a]>>
        send == relaunch \o
                <<[op |-> "wait", agent |-> a], [op |-> "send_reinit", agent |-> a]>>
    IN  IF outcome = "interrupt_raise" THEN interrupt
        ELSE IF outcome = "relaunch_raise" THEN relaunch
        ELSE send

\* Mutant: the loop is while True and never reads the flag.
LoopsForever(active) == TRUE

\* Mutant: the try statement wraps the for loop, so an exception ends the cycle.
ExceptionEndsCycle == "sleep"

\* Where the loop thread goes when the body of one iteration of
\* check_all_agents raises: the except clause inside the for loop, and from
\* there the next iteration.
AfterAgentException == "iter"

\* while self.monitoring_active:
LoopCondition(active) == active

\* -------------------------------------------------------------------- Init

\* No probe has captured anything yet.
NoCapture ==
    /\ recent_output = <<>>
    /\ judged = "none"

\* No sequential assign_optimal_task call has been made.
NoCalls == assign_event = [op |-> "init", n |-> 0]

\* AdvancedMonitoring.init_database on a new file: the table is empty.
NoSamples ==
    /\ agent_metrics = <<>>
    /\ trend_event = [op |-> "init"]

\* AutomatedQualityGates.__init__: no rules, no history.
NoGates ==
    /\ quality_rules = <<>>
    /\ quality_history = [p \in Projects |-> <<>>]
    /\ gate_event = [op |-> "init", n |-> 0]

\* IntelligentTaskAssignment.__init__: no capabilities, no workload; no caller
\* is in a call.
NoAssignment ==
    /\ agent_capabilities = [a \in Agents |-> Absent]
    /\ workload_tracker = [a \in Agents |-> <<>>]
    /\ avg_quality_score = [a \in Agents |-> Absent]
    /\ now = 0
    /\ asg = [c \in Callers |-> IdleCaller]
    /\ appended = {}

Init ==
    /\ health_checks = [a \in Agents |-> NotRegistered]
    /\ health_keys = <<>>
    /\ recovery_strategies = {}
    /\ monitoring_active = FALSE
    /\ pc = "idle"
    /\ iter_pos = 0
    /\ iter_size = 0
    /\ cur = NoAgent
    /\ event = [op |-> "init"]
    /\ streak = [a \in Agents |-> 0]
    /\ pending = NoAgent
    /\ checked = {}
    /\ thr = [t \in Threads |-> IdleThread]
    /\ failed_probes = [a \in Agents |-> 0]
    /\ metrics_collectors = <<>>
    /\ metrics_active = FALSE
    /\ mpc = "idle"
    /\ m_pos = 0
    /\ m_size = 0
    /\ m_cycles = FALSE
    /\ NoAssignment
    /\ NoCapture
    /\ NoGates
    /\ NoCalls
    /\ NoSamples

\* ----------------------------------------------------------------- actions

\* AgentHealthMonitor.register_agent, on the caller's thread.
register_agent(a, config) ==
    /\ health_checks' = [health_checks EXCEPT ![a] =
            [registered |-> TRUE, last_response |-> now,
             consecutive_failures |-> 0, config |-> config]]
    /\ health_keys' = IF Registered(a) THEN health_keys ELSE Append(health_keys, a)
    /\ event' = [op |-> "register", agent |-> a, was_registered |-> Registered(a),
                 before |-> IF Registered(a) THEN Failures(a) ELSE 0]
    /\ streak' = [streak EXCEPT ![a] = 0]
    /\ pending' = IF pending = a THEN NoAgent ELSE pending
    /\ UNCHANGED <<recovery_strategies, monitoring_active, pc, iter_pos, iter_size,
                   cur, checked>>
    /\ UNCHANGED outsideSupervision

\* The caller adds a handler to the recovery_strategies dict.
register_recovery_strategy ==
    /\ "custom" \notin recovery_strategies
    /\ recovery_strategies' = recovery_strategies \cup {"custom"}
    /\ event' = [op |-> "register_strategy"]
    /\ UNCHANGED <<health_checks, health_keys, monitoring_active, pc, iter_pos,
                   iter_size, cur, streak, pending, checked>>
    /\ UNCHANGED outsideSupervision

\* AgentHealthMonitor.start_health_monitoring: sets the flag and starts the thread.
start_health_monitoring ==
    /\ pc \in {"idle", "done"}
    /\ monitoring_active' = TRUE
    /\ pc' = "while"
    /\ event' = [op |-> "start"]
    /\ UNCHANGED <<health_checks, health_keys, recovery_strategies, iter_pos,
                   iter_size, cur, streak, pending, checked>>
    /\ UNCHANGED outsideSupervision

\* The owner of the monitor clears the stop flag.
stop_health_monitoring ==
    /\ monitoring_active
    /\ monitoring_active' = FALSE
    /\ event' = [op |-> "stop"]
    /\ UNCHANGED <<health_checks, health_keys, recovery_strategies, pc, iter_pos,
                   iter_size, cur, streak, pending, checked>>
    /\ UNCHANGED outsideSupervision

\* health_check_loop: the while test, and check_all_agents creating the iterator.
loop_test ==
    /\ pc = "while"
    /\ IF LoopCondition(monitoring_active)
          THEN /\ pc' = "iter"
               /\ iter_pos' = 0
               /\ iter_size' = Len(health_keys)
               /\ checked' = {}
               /\ event' = [op |-> "cycle_start"]
          ELSE /\ pc' = "done"
               /\ event' = [op |-> "loop_exit"]
               /\ UNCHANGED <<iter_pos, iter_size, checked>>
    /\ cur' = NoAgent
    /\ UNCHANGED <<health_checks, health_keys, recovery_strategies,
                   monitoring_active, streak, pending>>
    /\ UNCHANGED outsideSupervision

\* check_all_agents: the for statement asks the dict iterator for the next item.
\* A dict that changed size makes it raise RuntimeError, which leaves
\* check_all_agents and is caught in health_check_loop.
iter_next ==
    /\ pc = "iter"
    /\ IF Len(health_keys) # iter_size
          THEN /\ pc' = "sleep"
               /\ cur' = NoAgent
               /\ event' = [op |-> "cycle_end", how |-> "size_changed"]
               /\ UNCHANGED iter_pos
          ELSE IF iter_pos < Len(health_keys)
          THEN /\ pc' = "check"
               /\ cur' = health_keys[iter_pos + 1]
               /\ iter_pos' = iter_pos + 1
               /\ event' = [op |-> "next", agent |-> health_keys[iter_pos + 1]]
          ELSE /\ pc' = "sleep"
               /\ cur' = NoAgent
               /\ event' = [op |-> "cycle_end", how |-> "exhausted"]
               /\ UNCHANGED iter_pos
    /\ UNCHANGED <<health_checks, health_keys, recovery_strategies,
                   monitoring_active, iter_size, streak, pending, checked>>
    /\ UNCHANGED outsideSupervision

\* The probe of check_agent_health failed: count it, return False.
ProbeFailed(a, outcome) ==
    /\ Failures(a) < MaxCount
    /\ health_checks' = [health_checks EXCEPT
            ![a].consecutive_failures = Incremented(Failures(a))]
    /\ streak' = [streak EXCEPT ![a] = @ + 1]
    /\ pending' =
        IF health_checks'[a].consecutive_failures >= MaxFailuresOf(health_checks[a].config)
        THEN a ELSE pending
    /\ event' = [op |-> "probe", agent |-> a, outcome |-> outcome,
                 before |-> Failures(a)]
    /\ pc' = "handle"

\* Mutant: the probe that finds the marker resets the counter only.
ProbeSucceededKeepsTime(a) ==
    /\ health_checks' = [health_checks EXCEPT ![a].consecutive_failures = 0]
    /\ streak' = [streak EXCEPT ![a] = 0]
    /\ pending' = IF pending = a THEN NoAgent ELSE pending
    /\ event' = [op |-> "probe", agent |-> a, outcome |-> "marker_found",
                 before |-> Failures(a)]
    /\ pc' = "iter"

\* The probe found the marker: set last_response, reset the counter, return
\* True.
ProbeSucceeded(a) ==
    /\ health_checks' = [health_checks EXCEPT ![a].last_response = now,
                                              ![a].consecutive_failures = 0]
    /\ streak' = [streak EXCEPT ![a] = 0]
    /\ pending' = IF pending = a THEN NoAgent ELSE pending
    /\ event' = [op |-> "probe", agent |-> a, outcome |-> "marker_found",
                 before |-> Failures(a)]
    /\ pc' = "iter"

\* AgentHealthMonitor.check_agent_health(cur), called from check_all_agents.
check_agent_health ==
    /\ pc = "check"
    /\ \E send \in SendResults :
          \/ /\ send = "false"
             /\ ProbeFailed(cur, "send_false")
          \/ /\ send = "raise"
             /\ ProbeFailed(cur, "send_raise")
          \/ /\ send = "true"
             /\ \/ ProbeFailed(cur, "capture_raise")
                \/ \E out \in Outputs :
                      IF MarkerFound(out)
                      THEN ProbeSucceeded(cur)
                      ELSE ProbeFailed(cur, "marker_absent")
    /\ checked' = checked \cup {cur}
    /\ UNCHANGED <<health_keys, recovery_strategies, monitoring_active,
                   iter_pos, iter_size, cur>>
    /\ UNCHANGED outsideSupervision

\* AgentHealthMonitor.handle_unhealthy_agent(cur), called when the probe failed.
handle_unhealthy_agent ==
    /\ pc = "handle"
    /\ LET a == cur
           failures == Failures(a)
           max_failures == MaxFailuresOf(health_checks[a].config)
           recovery_strategy == StrategyOf(health_checks[a].config)
           seen == [op |-> "handle", agent |-> a, failures |-> failures,
                    max_failures |-> max_failures, streak |-> streak[a],
                    strategy |-> recovery_strategy]
       IN  IF ~ThresholdReached(failures, max_failures)
           THEN /\ event' = seen @@ [entered |-> FALSE, dispatched |-> "none",
                                     outcome |-> "none", steps |-> <<>>]
                /\ pc' = "iter"
                /\ UNCHANGED <<health_checks, streak, pending>>
           ELSE /\ pending' = IF pending = a THEN NoAgent ELSE pending
                /\ IF recovery_strategy = "restart"
                   THEN \E outcome \in RestartOutcomes :
                          /\ health_checks' =
                                IF RestartResets(outcome)
                                THEN [health_checks EXCEPT
                                         ![a].consecutive_failures = 0,
                                         ![a].last_response = now]
                                ELSE health_checks
                          /\ streak' = IF RestartResets(outcome)
                                       THEN [streak EXCEPT ![a] = 0] ELSE streak
                          /\ event' = seen @@ [entered |-> TRUE,
                                               dispatched |-> "restart",
                                               outcome |-> outcome,
                                               steps |-> RestartSteps(a, outcome)]
                          /\ pc' = "iter"
                   ELSE IF recovery_strategy = "notify_only"
                   THEN /\ event' = seen @@ [entered |-> TRUE,
                                             dispatched |-> "notify_only",
                                             outcome |-> "none", steps |-> <<>>]
                        /\ pc' = "iter"
                        /\ UNCHANGED <<health_checks, streak>>
                   ELSE IF recovery_strategy \in recovery_strategies
                   THEN \E outcome \in {"return", "raise"} :
                          /\ event' = seen @@ [entered |-> TRUE,
                                               dispatched |-> "custom",
                                               outcome |-> outcome,
                                               steps |-> <<[op |-> "callable",
                                                            agent |-> a]>>]
                          /\ pc' = IF outcome = "raise" THEN AfterAgentException
                                   ELSE "iter"
                          /\ UNCHANGED <<health_checks, streak>>
                   ELSE /\ event' = seen @@ [entered |-> TRUE, dispatched |-> "none",
                                             outcome |-> "none", steps |-> <<>>]
                        /\ pc' = "iter"
                        /\ UNCHANGED <<health_checks, streak>>
    /\ UNCHANGED <<health_keys, recovery_strategies, monitoring_active,
                   iter_pos, iter_size, cur, checked>>
    /\ UNCHANGED outsideSupervision

\* health_check_loop: time.sleep(check_interval), in the try or in the except.
loop_sleep ==
    /\ pc = "sleep"
    /\ pc' = "while"
    /\ event' = [op |-> "sleep"]
    /\ UNCHANGED <<health_checks, health_keys, recovery_strategies,
                   monitoring_active, iter_pos, iter_size, cur, streak, pending,
                   checked>>
    /\ UNCHANGED outsideSupervision

LoopStep ==
    \/ loop_test
    \/ iter_next
    \/ check_agent_health
    \/ handle_unhealthy_agent
    \/ loop_sleep

Next ==
    \/ \E a \in Agents, config \in Configs : register_agent(a, config)
    \/ register_recovery_strategy
    \/ start_health_monitoring
    \/ stop_health_monitoring
    \/ LoopStep

Spec == Init /\ [][Next]_vars

\* ------------------------------------------- SpecConc: concurrent supervision

\* The health_config that start_advanced_project hands to every agent of a
\* project: the one of main(), or one that only notifies.
ConcConfigs ==
    {[max_failures |-> <<2>>, recovery_strategy |-> <<"restart">>],
     [max_failures |-> <<1>>, recovery_strategy |-> <<"notify_only">>]}

\* Both agents are registered, with the same health_config, and no thread
\* runs yet.
InitConc ==
    /\ \E config \in ConcConfigs :
          health_checks = [a \in Agents |->
              [registered |-> TRUE, last_response |-> 0,
               consecutive_failures |-> 0, config |-> config]]
    /\ health_keys = <<"a1", "a2">>
    /\ recovery_strategies = {}
    /\ monitoring_active = FALSE
    /\ pc = "idle"
    /\ iter_pos = 0
    /\ iter_size = 0
    /\ cur = NoAgent
    /\ event = [op |-> "init"]
    /\ streak = [a \in Agents |-> 0]
    /\ pending = NoAgent
    /\ checked = {}
    /\ thr = [t \in Threads |-> IdleThread]
    /\ failed_probes = [a \in Agents |-> 0]
    /\ metrics_collectors = <<>>
    /\ metrics_active = FALSE
    /\ mpc = "idle"
    /\ m_pos = 0
    /\ m_size = 0
    /\ m_cycles = FALSE
    /\ NoAssignment
    /\ NoCapture
    /\ NoGates
    /\ NoCalls
    /\ NoSamples

\* start_health_monitoring: one more thread runs health_check_loop.
conc_start(t) ==
    /\ thr[t].pc = "idle"
    /\ monitoring_active' = TRUE
    /\ thr' = [thr EXCEPT ![t].pc = "while"]
    /\ UNCHANGED <<health_checks, failed_probes>>
    /\ UNCHANGED outsideConc

\* health_check_loop: the while test and the iterator of check_all_agents.
conc_loop_test(t) ==
    /\ thr[t].pc = "while"
    /\ thr' = [thr EXCEPT ![t] =
          IF LoopCondition(monitoring_active)
          THEN [pc |-> "iter", agent |-> NoAgent, pos |-> 0,
                size |-> Len(health_keys), loaded |-> 0, probed |-> {}]
          ELSE [thr[t] EXCEPT !.pc = "done"]]
    /\ UNCHANGED <<health_checks, monitoring_active, failed_probes>>
    /\ UNCHANGED outsideConc

\* check_all_agents: the for statement takes the next item.
conc_iter_next(t) ==
    /\ thr[t].pc = "iter"
    /\ thr' = [thr EXCEPT ![t] =
          IF Len(health_keys) # thr[t].size
          THEN [thr[t] EXCEPT !.pc = "sleep", !.agent = NoAgent]
          ELSE IF thr[t].pos < Len(health_keys)
          THEN [thr[t] EXCEPT !.pc = "send",
                              !.agent = health_keys[thr[t].pos + 1],
                              !.pos = thr[t].pos + 1]
          ELSE [thr[t] EXCEPT !.pc = "sleep", !.agent = NoAgent]]
    /\ UNCHANGED <<health_checks, monitoring_active, failed_probes>>
    /\ UNCHANGED outsideConc

\* check_agent_health: self.tmux_manager.send_message(target, health_check_msg)
\* returns, raises, or does not come back.
conc_send(t) ==
    /\ thr[t].pc = "send"
    /\ \E result \in SendResults \cup {"hang"} :
          thr' = [thr EXCEPT ![t].probed = @ \cup {thr[t].agent},
                             ![t].pc = CASE result = "true" -> "wait"
                                         [] result = "hang" -> "hung"
                                         [] OTHER -> "load"]
    /\ UNCHANGED <<health_checks, monitoring_active, failed_probes>>
    /\ UNCHANGED outsideConc

\* check_agent_health: time.sleep(5), the observation delay.
conc_wait(t) ==
    /\ thr[t].pc = "wait"
    /\ thr' = [thr EXCEPT ![t].pc = "capture"]
    /\ UNCHANGED <<health_checks, monitoring_active, failed_probes>>
    /\ UNCHANGED outsideConc

\* check_agent_health: capture_pane and the scan for the marker; a marker in
\* the window stores 0 in the counter.
conc_capture(t) ==
    /\ thr[t].pc = "capture"
    /\ \/ /\ thr' = [thr EXCEPT ![t].pc = "hung"]
          /\ UNCHANGED <<health_checks, failed_probes>>
       \/ /\ thr' = [thr EXCEPT ![t].pc = "load"]
          /\ UNCHANGED <<health_checks, failed_probes>>
       \/ \E out \in Outputs :
             IF MarkerFound(out)
             THEN /\ health_checks' =
                        [health_checks EXCEPT
                            ![thr[t].agent].last_response = now,
                            ![thr[t].agent].consecutive_failures = 0]
                  /\ failed_probes' = [failed_probes EXCEPT ![thr[t].agent] = 0]
                  /\ thr' = [thr EXCEPT ![t].pc = "iter"]
             ELSE /\ thr' = [thr EXCEPT ![t].pc = "load"]
                  /\ UNCHANGED <<health_checks, failed_probes>>
    /\ UNCHANGED monitoring_active
    /\ UNCHANGED outsideConc

\* health_info["consecutive_failures"] += 1, first half: the thread reads the
\* counter.
conc_load(t) ==
    /\ thr[t].pc = "load"
    /\ Failures(thr[t].agent) < MaxCount
    /\ failed_probes[thr[t].agent] < MaxCount
    /\ thr' = [thr EXCEPT ![t].pc = "store", ![t].loaded = Failures(thr[t].agent)]
    /\ UNCHANGED <<health_checks, monitoring_active, failed_probes>>
    /\ UNCHANGED outsideConc

\* health_info["consecutive_failures"] += 1, second half: the thread stores
\* what it read plus 1, and check_agent_health returns False.
conc_store(t) ==
    /\ thr[t].pc = "store"
    /\ health_checks' = [health_checks EXCEPT
          ![thr[t].agent].consecutive_failures = Incremented(thr[t].loaded)]
    /\ failed_probes' = [failed_probes EXCEPT ![thr[t].agent] = @ + 1]
    /\ thr' = [thr EXCEPT ![t].pc = "handle", ![t].loaded = 0]
    /\ UNCHANGED monitoring_active
    /\ UNCHANGED outsideConc

\* handle_unhealthy_agent: reads the counter and picks the strategy.
conc_handle(t) ==
    /\ thr[t].pc = "handle"
    /\ LET config == health_checks[thr[t].agent].config
       IN  thr' = [thr EXCEPT ![t].pc =
              IF /\ ThresholdReached(Failures(thr[t].agent), MaxFailuresOf(config))
                 /\ StrategyOf(config) = "restart"
              THEN "restart" ELSE "iter"]
    /\ UNCHANGED <<health_checks, monitoring_active, failed_probes>>
    /\ UNCHANGED outsideConc

\* restart_agent: the three steps, then the reset when none of them raised.
conc_restart(t) ==
    /\ thr[t].pc = "restart"
    /\ \E outcome \in RestartOutcomes :
          IF RestartResets(outcome)
          THEN /\ health_checks' =
                     [health_checks EXCEPT
                         ![thr[t].agent].consecutive_failures = 0,
                         ![thr[t].agent].last_response = now]
               /\ failed_probes' = [failed_probes EXCEPT ![thr[t].agent] = 0]
          ELSE UNCHANGED <<health_checks, failed_probes>>
    /\ thr' = [thr EXCEPT ![t].pc = "iter"]
    /\ UNCHANGED monitoring_active
    /\ UNCHANGED outsideConc

\* health_check_loop: time.sleep(check_interval).
conc_sleep(t) ==
    /\ thr[t].pc = "sleep"
    /\ thr' = [thr EXCEPT ![t].pc = "while"]
    /\ UNCHANGED <<health_checks, monitoring_active, failed_probes>>
    /\ UNCHANGED outsideConc

ThreadStep(t) ==
    \/ conc_loop_test(t)
    \/ conc_iter_next(t)
    \/ conc_send(t)
    \/ conc_wait(t)
    \/ conc_capture(t)
    \/ conc_load(t)
    \/ conc_store(t)
    \/ conc_handle(t)
    \/ conc_restart(t)
    \/ conc_sleep(t)

NextConc == \E t \in Threads : conc_start(t) \/ ThreadStep(t)

SpecConc == InitConc /\ [][NextConc]_vars

\* ------------------------------------------- SpecStop: the two loops and stop

\* The caller puts a collector into the metrics_collectors dict.
add_collector(c) ==
    /\ \A i \in 1..Len(metrics_collectors) : metrics_collectors[i] # c
    /\ metrics_collectors' = Append(metrics_collectors, c)
    /\ UNCHANGED <<metrics_active, mpc, m_pos, m_size, m_cycles>>
    /\ UNCHANGED <<supervisionVars, thr, failed_probes, assignVars, scanVars, gateVars, seqVars, trendVars>>

\* AdvancedMonitoring.start_monitoring: sets the flag and starts the thread.
start_monitoring ==
    /\ mpc \in {"idle", "done"}
    /\ metrics_active' = TRUE
    /\ mpc' = "while"
    /\ UNCHANGED <<metrics_collectors, m_pos, m_size, m_cycles>>
    /\ UNCHANGED <<supervisionVars, thr, failed_probes, assignVars, scanVars, gateVars, seqVars, trendVars>>

\* The owner of the monitoring object clears the stop flag.
stop_monitoring ==
    /\ metrics_active
    /\ metrics_active' = FALSE
    /\ UNCHANGED <<metrics_collectors, mpc, m_pos, m_size, m_cycles>>
    /\ UNCHANGED <<supervisionVars, thr, failed_probes, assignVars, scanVars, gateVars, seqVars, trendVars>>

\* monitoring_loop: the while test, and collect_all_metrics creating the iterator.
monitoring_loop_test ==
    /\ mpc = "while"
    /\ IF LoopCondition(metrics_active)
          THEN /\ mpc' = "iter"
               /\ m_pos' = 0
               /\ m_size' = Len(metrics_collectors)
          ELSE /\ mpc' = "done"
               /\ UNCHANGED <<m_pos, m_size>>
    /\ UNCHANGED <<metrics_collectors, metrics_active, m_cycles>>
    /\ UNCHANGED <<supervisionVars, thr, failed_probes, assignVars, scanVars, gateVars, seqVars, trendVars>>

\* collect_all_metrics: the for statement takes the next collector, finds the
\* dict exhausted, or raises RuntimeError because the dict changed size.
collect_next ==
    /\ mpc = "iter"
    /\ IF Len(metrics_collectors) = m_size /\ m_pos < Len(metrics_collectors)
          THEN /\ mpc' = "collect"
               /\ m_pos' = m_pos + 1
          ELSE /\ mpc' = "sleep"
               /\ UNCHANGED m_pos
    /\ UNCHANGED <<metrics_collectors, metrics_active, m_size, m_cycles>>
    /\ UNCHANGED <<supervisionVars, thr, failed_probes, assignVars, scanVars, gateVars, seqVars, trendVars>>

\* collect_all_metrics: collector_func() returns or raises; the except clause
\* inside the for loop logs the exception.
collect ==
    /\ mpc = "collect"
    /\ \E outcome \in {"return", "raise"} : mpc' = "iter"
    /\ UNCHANGED <<metrics_collectors, metrics_active, m_pos, m_size, m_cycles>>
    /\ UNCHANGED <<supervisionVars, thr, failed_probes, assignVars, scanVars, gateVars, seqVars, trendVars>>

\* monitoring_loop: time.sleep(interval_seconds), in the try or in the except.
monitoring_sleep ==
    /\ mpc = "sleep"
    /\ mpc' = "while"
    /\ m_cycles' = TRUE
    /\ UNCHANGED <<metrics_collectors, metrics_active, m_pos, m_size>>
    /\ UNCHANGED <<supervisionVars, thr, failed_probes, assignVars, scanVars, gateVars, seqVars, trendVars>>

MetricsStep ==
    \/ monitoring_loop_test
    \/ collect_next
    \/ collect
    \/ monitoring_sleep

\* Both agents are registered with the health_config of main() and no loop
\* runs yet.
InitStop ==
    /\ health_checks = [a \in Agents |->
          [registered |-> TRUE, last_response |-> 0, consecutive_failures |-> 0,
           config |-> [max_failures |-> <<2>>, recovery_strategy |-> <<"restart">>]]]
    /\ health_keys = <<"a1", "a2">>
    /\ recovery_strategies = {}
    /\ monitoring_active = FALSE
    /\ pc = "idle"
    /\ iter_pos = 0
    /\ iter_size = 0
    /\ cur = NoAgent
    /\ event = [op |-> "init"]
    /\ streak = [a \in Agents |-> 0]
    /\ pending = NoAgent
    /\ checked = {}
    /\ thr = [t \in Threads |-> IdleThread]
    /\ failed_probes = [a \in Agents |-> 0]
    /\ metrics_collectors = <<>>
    /\ metrics_active = FALSE
    /\ mpc = "idle"
    /\ m_pos = 0
    /\ m_size = 0
    /\ m_cycles = FALSE
    /\ NoAssignment
    /\ NoCapture
    /\ NoGates
    /\ NoCalls
    /\ NoSamples

NextStop ==
    \/ start_health_monitoring
    \/ stop_health_monitoring
    \/ LoopStep
    \/ \E c \in Collectors : add_collector(c)
    \/ start_monitoring
    \/ stop_monitoring
    \/ MetricsStep

\* Each loop runs in a thread of its own, which the interpreter keeps
\* scheduling: a loop step that stays possible is taken.
SpecStop ==
    InitStop /\ [][NextStop]_vars /\ WF_vars(LoopStep) /\ WF_vars(MetricsStep)

\* --------------------------------------- SpecAssign: concurrent assignment

\* The capability dict a caller registers for an agent (skill -> level in
\* tenths).
CapabilitiesOf(a) == IF a = "a1" THEN [x |-> 9] ELSE [x |-> 3]

\* The average quality scores the store can hold for an agent, in tenths.
QualityScores == {Absent, <<0>>}

RECURSIVE GCD(_, _)
GCD(m, n) == IF n = 0 THEN m ELSE GCD(n, m % n)

\* The same fraction in lowest terms.
Reduced(p) ==
    LET g == GCD(p.num, p.den)
    IN  [num |-> p.num \div g, den |-> p.den \div g]

Times(p, q) == Reduced([num |-> p.num * q.num, den |-> p.den * q.den])

Greater(p, q) == p.num * q.den > q.num * p.den

Min(m, n) == IF m < n THEN m ELSE n

Max(m, n) == IF m > n THEN m ELSE n

\* Mutant: a skill the agent does not have counts as level 1.0.
LevelOrFull(agent_caps, skill) ==
    IF skill \in DOMAIN agent_caps THEN agent_caps[skill] ELSE 10

\* agent_caps.get(skill, 0.0)
LevelOf(agent_caps, skill) ==
    IF skill \in DOMAIN agent_caps THEN agent_caps[skill] ELSE 0

One == [num |-> 1, den |-> 1]

Tenths(n) == [num |-> n, den |-> 10]

Plus(p, q) ==
    Reduced([num |-> p.num * q.den + q.num * p.den, den |-> p.den * q.den])

\* p / q for a positive q
Quotient(p, q) == Reduced([num |-> p.num * q.den, den |-> p.den * q.num])

\* min(1.0, agent_level / required_level) if required_level > 0 else 1.0
MatchScore(agent_level, required_level) ==
    IF required_level > 0
       THEN LET ratio == [num |-> agent_level, den |-> required_level]
            IN  IF Greater(One, ratio) THEN ratio ELSE One
       ELSE One

\* The loop of _calculate_capability_match over task_reqs.items(): both
\* running totals after the skills in the set have been visited.
RECURSIVE MatchTotals(_, _, _)
MatchTotals(agent_caps, task_reqs, skills) ==
    IF skills = {} THEN [total_match |-> Zero, total_weight |-> Zero]
    ELSE LET skill == CHOOSE k \in skills : TRUE
             rest == MatchTotals(agent_caps, task_reqs, skills \ {skill})
             required_level == task_reqs[skill]
             agent_level == LevelOf(agent_caps, skill)
             weight == Tenths(required_level)
             match_score == MatchScore(agent_level, required_level)
         IN  [total_match |-> Plus(rest.total_match, Times(match_score, weight)),
              total_weight |-> Plus(rest.total_weight, weight)]

\* _calculate_capability_match
CapabilityMatch(agent_caps, task_reqs) ==
    IF DOMAIN task_reqs = {} THEN One
    ELSE LET totals == MatchTotals(agent_caps, task_reqs, DOMAIN task_reqs)
         IN  IF totals.total_weight.num > 0
                THEN Quotient(totals.total_match, totals.total_weight)
                ELSE Zero

\* task.get("required_skills", {})
RequirementsOf(task) ==
    IF task.required_skills = Absent THEN <<>> ELSE task.required_skills[1]

\* Mutant: a task without complexity counts as complexity 1.0.
ComplexityOrOne(task) ==
    IF task.complexity = Absent THEN 10 ELSE task.complexity[1]

\* task.get("complexity", 0.5)
ComplexityOf(task) ==
    IF task.complexity = Absent THEN DefaultComplexity ELSE task.complexity[1]

\* task.get("priority", "medium")
PriorityOf(task) ==
    IF task.priority = Absent THEN "medium" ELSE task.priority[1]

\* Mutant: an entry exactly at the cutoff is still active.
ActiveAtCutoff(entry, time) == entry.assigned_at >= time - RetentionHours

\* task["assigned_at"] > cutoff_time, with cutoff_time = now - 24 hours
Active(entry, time) == entry.assigned_at > time - RetentionHours

\* Mutant: no entry is ever dropped.
AllTasks(current_tasks, time) == current_tasks

\* [task for task in current_tasks if task["assigned_at"] > cutoff_time]
ActiveTasks(current_tasks, time) ==
    SelectSeq(current_tasks, LAMBDA entry : Active(entry, time))

RECURSIVE SumComplexity(_)
SumComplexity(tasks) ==
    IF tasks = <<>> THEN 0
    ELSE Head(tasks).complexity + SumComplexity(Tail(tasks))

\* Mutant: the inverse of the load without the floor.
WorkloadFactorWithoutFloor(active_tasks) ==
    [num |-> 10, den |-> 10 + SumComplexity(active_tasks)]

\* Mutant: the workload does not count.
WorkloadIgnored(active_tasks) == [num |-> 10, den |-> 10]

\* max(0.1, 1.0 / (1.0 + workload_score)), with workload_score in tenths
WorkloadFactor(active_tasks) ==
    LET inverse == [num |-> 10, den |-> 10 + SumComplexity(active_tasks)]
        floor == [num |-> FloorTenths, den |-> 10]
    IN  IF Greater(floor, inverse) THEN floor ELSE inverse

\* {"error": "No data found for agent"}
NoData == [error |-> "No data found for agent"]

\* Mutant: the default is returned only when the retrieval raises.
PerformanceFactorUnlessRaised(raised, trend_data) ==
    IF raised THEN Tenths(DefaultPerformance)
    ELSE IF "avg_quality_score" \in DOMAIN trend_data
            /\ Greater(trend_data.avg_quality_score, Tenths(FloorTenths))
         THEN trend_data.avg_quality_score
         ELSE Tenths(FloorTenths)

\* _calculate_performance_factor, given whether get_agent_performance_trend
\* raised and what it returned if it did not: max(0.1, avg_quality_score) when
\* the trend has the key, 0.8 when it has not or the retrieval raised.
PerformanceFactorOf(raised, trend_data) ==
    IF ~raised /\ "avg_quality_score" \in DOMAIN trend_data
       THEN IF Greater(Tenths(FloorTenths), trend_data.avg_quality_score)
               THEN Tenths(FloorTenths)
               ELSE trend_data.avg_quality_score
       ELSE Tenths(DefaultPerformance)

\* _calculate_performance_factor where the store is kept as the average it
\* would report: Absent stands for a store without data for the agent.
PerformanceFactor(a) ==
    PerformanceFactorOf(FALSE,
        IF avg_quality_score[a] = Absent THEN NoData
        ELSE [agent_name |-> a,
              avg_quality_score |-> Tenths(avg_quality_score[a][1])])

\* IntelligentTaskAssignment.register_agent_capabilities
register_agent_capabilities(a, capabilities) ==
    /\ agent_capabilities' = [agent_capabilities EXCEPT ![a] = <<capabilities>>]
    /\ UNCHANGED <<workload_tracker, avg_quality_score, now, asg, appended>>
    /\ UNCHANGED <<supervisionVars, thr, failed_probes, metricsVars, scanVars, gateVars, seqVars, trendVars>>

\* assign_optimal_task, entry: an empty candidate list returns None at once.
assign_call(c, task, available_agents) ==
    /\ asg[c].pc = "idle"
    /\ asg[c].calls < MaxCalls
    /\ asg' = [asg EXCEPT ![c] =
          IF available_agents = <<>>
             THEN [IdleCaller EXCEPT !.calls = asg[c].calls + 1]
             ELSE [IdleCaller EXCEPT !.pc = "for", !.task = <<task>>,
                                     !.available = available_agents,
                                     !.calls = asg[c].calls + 1]]
    /\ UNCHANGED <<agent_capabilities, workload_tracker, avg_quality_score, now, appended>>
    /\ UNCHANGED <<supervisionVars, thr, failed_probes, metricsVars, scanVars, gateVars, seqVars, trendVars>>

\* assign_optimal_task: the for statement takes the next candidate and skips
\* it when it has no capability vector.
assign_for(c) ==
    /\ asg[c].pc = "for"
    /\ asg' = [asg EXCEPT ![c] =
          IF asg[c].idx = Len(asg[c].available)
             THEN [asg[c] EXCEPT !.pc = "record"]
             ELSE LET a == asg[c].available[asg[c].idx + 1]
                  IN  IF agent_capabilities[a] = Absent
                         THEN [asg[c] EXCEPT !.idx = asg[c].idx + 1]
                         ELSE [asg[c] EXCEPT !.idx = asg[c].idx + 1,
                                             !.agent = a, !.pc = "prune"]]
    /\ UNCHANGED <<agent_capabilities, workload_tracker, avg_quality_score, now, appended>>
    /\ UNCHANGED <<supervisionVars, thr, failed_probes, metricsVars, scanVars, gateVars, seqVars, trendVars>>

\* _calculate_workload_factor, first half: reads the agent's list and builds
\* active_tasks from it.
assign_prune(c) ==
    /\ asg[c].pc = "prune"
    /\ asg' = [asg EXCEPT ![c] =
          [asg[c] EXCEPT !.pc = "replace",
                         !.active_tasks =
                              ActiveTasks(workload_tracker[asg[c].agent], now)]]
    /\ UNCHANGED <<agent_capabilities, workload_tracker, avg_quality_score, now, appended>>
    /\ UNCHANGED <<supervisionVars, thr, failed_probes, metricsVars, scanVars, gateVars, seqVars, trendVars>>

\* _calculate_workload_factor, second half: stores active_tasks as the agent's
\* list and returns the factor; assign_optimal_task multiplies the three
\* factors and keeps the candidate if its score is strictly greater.
assign_replace(c) ==
    /\ asg[c].pc = "replace"
    /\ LET a == asg[c].agent
           total_score ==
               Times(Times(CapabilityMatch(agent_capabilities[a][1],
                                           RequirementsOf(asg[c].task[1])),
                           PerformanceFactor(a)),
                     WorkloadFactor(asg[c].active_tasks))
           better == Greater(total_score, asg[c].best_score)
       IN  /\ workload_tracker' = [workload_tracker EXCEPT ![a] = asg[c].active_tasks]
           /\ asg' = [asg EXCEPT ![c] =
                 [asg[c] EXCEPT !.pc = "for", !.agent = NoAgent,
                                !.active_tasks = <<>>,
                                !.best_score = IF better THEN total_score
                                               ELSE asg[c].best_score,
                                !.best_agent = IF better THEN a
                                               ELSE asg[c].best_agent]]
    /\ UNCHANGED <<agent_capabilities, avg_quality_score, now, appended>>
    /\ UNCHANGED <<supervisionVars, thr, failed_probes, metricsVars, scanVars, gateVars, seqVars, trendVars>>

\* assign_optimal_task, after the loop: appends the entry to the best agent's
\* list, if there is a best agent, and returns.
assign_record(c) ==
    /\ asg[c].pc = "record"
    /\ LET task == asg[c].task[1]
           entry == [task_id |-> task.id, assigned_at |-> now,
                     complexity |-> ComplexityOf(task),
                     priority |-> PriorityOf(task)]
           best == asg[c].best_agent
       IN  IF best # NoAgent
              THEN /\ workload_tracker' =
                        [workload_tracker EXCEPT ![best] = Append(@, entry)]
                   /\ appended' = appended \cup {<<best, entry>>}
              ELSE UNCHANGED <<workload_tracker, appended>>
    /\ asg' = [asg EXCEPT ![c] = [IdleCaller EXCEPT !.calls = asg[c].calls]]
    /\ UNCHANGED <<agent_capabilities, avg_quality_score, now>>
    /\ UNCHANGED <<supervisionVars, thr, failed_probes, metricsVars, scanVars, gateVars, seqVars, trendVars>>

\* Time passes.
clock_tick ==
    /\ now < MaxTime
    /\ now' = now + TickHours
    /\ UNCHANGED <<agent_capabilities, workload_tracker, avg_quality_score, asg, appended>>
    /\ UNCHANGED <<supervisionVars, thr, failed_probes, metricsVars, scanVars, gateVars, seqVars, trendVars>>

\* No health monitoring and no metrics loop; the store holds some quality
\* data and both agents have capability vectors.
InitAssign ==
    /\ health_checks = [a \in Agents |-> NotRegistered]
    /\ health_keys = <<>>
    /\ recovery_strategies = {}
    /\ monitoring_active = FALSE
    /\ pc = "idle"
    /\ iter_pos = 0
    /\ iter_size = 0
    /\ cur = NoAgent
    /\ event = [op |-> "init"]
    /\ streak = [a \in Agents |-> 0]
    /\ pending = NoAgent
    /\ checked = {}
    /\ thr = [t \in Threads |-> IdleThread]
    /\ failed_probes = [a \in Agents |-> 0]
    /\ metrics_collectors = <<>>
    /\ metrics_active = FALSE
    /\ mpc = "idle"
    /\ m_pos = 0
    /\ m_size = 0
    /\ m_cycles = FALSE
    /\ agent_capabilities = [a \in Agents |-> Absent]
    /\ workload_tracker = [a \in Agents |-> <<>>]
    /\ avg_quality_score \in [Agents -> QualityScores]
    /\ now = 0
    /\ asg = [c \in Callers |-> IdleCaller]
    /\ appended = {}
    /\ NoCapture
    /\ NoGates
    /\ NoCalls
    /\ NoSamples

CallerStep(c) ==
    \/ \E task \in TasksOf(c), available_agents \in AvailableLists :
           assign_call(c, task, available_agents)
    \/ assign_for(c)
    \/ assign_prune(c)
    \/ assign_replace(c)
    \/ assign_record(c)

NextAssign ==
    \/ \E a \in Agents : register_agent_capabilities(a, CapabilitiesOf(a))
    \/ \E c \in Callers : CallerStep(c)
    \/ clock_tick

SpecAssign == InitAssign /\ [][NextAssign]_vars

\* ------------------------------------------------ SpecScan: the marker scan

\* "HEALTHY"
Marker == <<"H", "E", "A", "L", "T", "H", "Y">>

\* n characters that are no part of the marker.
Filler(n) == [i \in 1..n |-> "x"]

\* What a captured text holds between its leading and its trailing filler:
\* nothing, the marker, the marker in lower case, the marker without its last
\* character, or two markers more than a window apart.
Pieces ==
    {<<>>, Marker, <<"h", "e", "a", "l", "t", "h", "y">>,
     <<"H", "E", "A", "L", "T", "H">>,
     Marker \o Filler(Window) \o Marker}

\* The numbers of trailing filler characters, around the edges of the window.
Posts ==
    {0, 1, Window - MarkerLen - 1, Window - MarkerLen, Window - MarkerLen + 1,
     Window - 1, Window, Window + 1}

\* The texts capture_pane returns; the empty text is also what it returns when
\* tmux fails (CalledProcessError is caught there).
Texts ==
    {Filler(pre) \o piece \o Filler(post) :
        pre \in 0..MaxPad, piece \in Pieces, post \in Posts}

\* s[-n:]
LastChars(s, n) ==
    IF Len(s) > n THEN SubSeq(s, Len(s) - n + 1, Len(s)) ELSE s

\* Mutant: the scan looks at the whole capture.
WholeCapture(text) == text

\* recent_output[-500:]
RecentWindow(text) == LastChars(text, Window)

\* needle in s
Contains(s, needle) ==
    \E i \in 1..(Len(s) - Len(needle) + 1) :
        SubSeq(s, i, i + Len(needle) - 1) = needle

\* "HEALTHY" in recent_output[-500:]
MarkerInOutput(text) == Contains(RecentWindow(text), Marker)

\* check_agent_health: recent_output = self.tmux_manager.capture_pane(target)
capture_pane(text) ==
    /\ recent_output' = text
    /\ judged' = "captured"
    /\ UNCHANGED <<supervisionVars, thr, failed_probes, metricsVars, assignVars, gateVars, seqVars, trendVars>>

\* check_agent_health: the if statement on the captured output.
scan_output ==
    /\ judged = "captured"
    /\ judged' = IF MarkerInOutput(recent_output) THEN "healthy" ELSE "failed"
    /\ UNCHANGED recent_output
    /\ UNCHANGED <<supervisionVars, thr, failed_probes, metricsVars, assignVars, gateVars, seqVars, trendVars>>

NextScan ==
    \/ \E text \in Texts : capture_pane(text)
    \/ scan_output

SpecScan == Init /\ [][NextScan]_vars

\* ------------------------------------------ SpecGates: the quality gates

\* required_fields of add_quality_rule
RequiredFields == {"name", "check_function", "severity", "threshold"}

\* rule.get("comparison", ">=")
DefaultComparison == ">="

\* The keys a context can hold.
ContextKeys == {"test_coverage", "security_vulnerabilities"}

\* A check_function that is a context key.
Key(k) == [kind |-> "key", key |-> k, value |-> 0]

\* A check_function that is a callable returning v.
Returns(v) == [kind |-> "returns", key |-> "", value |-> v]

\* A check_function that is a callable raising an exception.
Raising == [kind |-> "raises", key |-> "", value |-> 0]

\* A rule dict: each field is Absent or <<value>>.
Rule(name, check_function, severity, threshold, comparison, message) ==
    [name |-> name, check_function |-> check_function, severity |-> severity,
     threshold |-> threshold, comparison |-> comparison, message |-> message]

\* The test coverage rule and the security rule of setup_default_quality_rules
\* (the first without its message), and a rule whose evaluator raises.
CoverageRule ==
    Rule(<<"Test Coverage">>, <<Key("test_coverage")>>, <<"warning">>, <<85>>,
         <<">=">>, Absent)

SecurityRule ==
    Rule(<<"Security Vulnerabilities">>, <<Key("security_vulnerabilities")>>,
         <<"error">>, <<0>>, <<"==">>, <<"Security vulnerabilities detected">>)

RaisingRule ==
    Rule(<<"Broken">>, <<Raising>>, <<"warning">>, <<0>>, Absent, Absent)

\* The rules passed to add_quality_rule in SpecGates: the three above and the
\* coverage rule with one required field left out.
GateRules ==
    {CoverageRule, SecurityRule, RaisingRule}
    \cup {[CoverageRule EXCEPT ![f] = Absent] :
             f \in {"name", "check_function", "severity", "threshold"}}

\* The contexts passed to check_quality_gates in SpecGates.
GateContexts ==
    {[test_coverage |-> Absent, security_vulnerabilities |-> Absent],
     [test_coverage |-> <<90>>, security_vulnerabilities |-> <<0>>],
     [test_coverage |-> <<80>>, security_vulnerabilities |-> <<2>>]}

\* Mutant: only the name is required.
HasName(rule) == rule.name # Absent

\* all(field in rule for field in required_fields)
HasRequiredFields(rule) == \A f \in RequiredFields : rule[f] # Absent

\* Mutant: a missing key counts as -1.
ContextGetOrMinusOne(context, key) ==
    IF key \in DOMAIN context /\ context[key] # Absent
       THEN context[key][1] ELSE 0 - 1

\* context.get(check_function, 0)
ContextGet(context, key) ==
    IF key \in DOMAIN context /\ context[key] # Absent
       THEN context[key][1] ELSE 0

\* Mutant: >= is evaluated as >.
EvaluateThresholdStrictly(actual, threshold, comparison) ==
    CASE comparison = ">=" -> actual > threshold
      [] comparison = "<=" -> actual <= threshold
      [] comparison = ">"  -> actual > threshold
      [] comparison = "<"  -> actual < threshold
      [] comparison = "==" -> actual = threshold
      [] OTHER -> TRUE

\* Mutant: an operator that is not recognized fails the rule.
EvaluateThresholdOrFail(actual, threshold, comparison) ==
    CASE comparison = ">=" -> actual >= threshold
      [] comparison = "<=" -> actual <= threshold
      [] comparison = ">"  -> actual > threshold
      [] comparison = "<"  -> actual < threshold
      [] comparison = "==" -> actual = threshold
      [] OTHER -> FALSE

\* _evaluate_threshold
EvaluateThreshold(actual, threshold, comparison) ==
    CASE comparison = ">=" -> actual >= threshold
      [] comparison = "<=" -> actual <= threshold
      [] comparison = ">"  -> actual > threshold
      [] comparison = "<"  -> actual < threshold
      [] comparison = "==" -> actual = threshold
      [] OTHER -> TRUE

\* _execute_quality_check raises: the callable raises, or a subscripted field
\* of the rule is missing (KeyError).
ExecutionRaises(rule) ==
    \/ rule.check_function = Absent
    \/ rule.threshold = Absent
    \/ rule.severity = Absent
    \/ rule.check_function[1].kind = "raises"

\* actual_value of _execute_quality_check
ActualValue(rule, context) ==
    IF rule.check_function[1].kind = "returns"
       THEN rule.check_function[1].value
       ELSE ContextGet(context, rule.check_function[1].key)

\* rule.get("comparison", ">=")
ComparisonOf(rule) ==
    IF rule.comparison = Absent THEN DefaultComparison ELSE rule.comparison[1]

\* rule.get("message", f"{rule['name']}: {actual_value} vs {threshold}"): the
\* generated text is determined by the three values, which the outcome holds.
MessageOf(rule) ==
    IF rule.message = Absent THEN "<name>: <actual_value> vs <threshold>"
    ELSE rule.message[1]

\* _execute_quality_check, when it returns
ExecuteQualityCheck(rule, context) ==
    LET actual_value == ActualValue(rule, context)
        threshold == rule.threshold[1]
        passed == EvaluateThreshold(actual_value, threshold, ComparisonOf(rule))
    IN  [rule_name |-> rule.name[1],
         status |-> IF passed THEN "passed" ELSE "failed",
         actual_value |-> actual_value,
         threshold |-> threshold,
         severity |-> rule.severity[1],
         message |-> MessageOf(rule)]

\* Mutant: the error outcome takes the severity of its rule.
SeverityOfRule(rule) == rule.severity[1]

\* "severity": "error" of error_result
ErrorSeverity(rule) == "error"

\* error_result of check_quality_gates
ErrorResult(rule) ==
    [rule_name |-> rule.name[1], status |-> "error",
     message |-> "Quality check failed to execute", severity |-> ErrorSeverity(rule)]

\* results of check_quality_gates before the first rule
NewResults(project) ==
    [project |-> project, timestamp |-> now, passed |-> TRUE,
     checks |-> <<>>, warnings |-> <<>>, errors |-> <<>>]

\* Mutant: only a failure of severity error fails the gate.
GateFailedByError(check_result) ==
    check_result.status = "failed" /\ check_result.severity = "error"

\* check_result["status"] == "failed"
GateFailedBy(check_result) == check_result.status = "failed"

\* Mutant: every failed outcome goes to the errors list.
AlwaysErrorSeverity(check_result) == TRUE

\* check_result["severity"] == "error"
IsErrorSeverity(check_result) == check_result.severity = "error"

\* check_quality_gates: one iteration of the for loop, with its try statement.
RunRule(results, rule, context) ==
    IF ExecutionRaises(rule)
       THEN [results EXCEPT !.errors = Append(@, ErrorResult(rule)),
                            !.passed = FALSE]
       ELSE LET check_result == ExecuteQualityCheck(rule, context)
                checked_results == [results EXCEPT !.checks = Append(@, check_result)]
            IN  IF GateFailedBy(check_result)
                   THEN IF IsErrorSeverity(check_result)
                           THEN [checked_results EXCEPT
                                    !.passed = FALSE,
                                    !.errors = Append(@, check_result)]
                           ELSE [checked_results EXCEPT
                                    !.passed = FALSE,
                                    !.warnings = Append(@, check_result)]
                   ELSE checked_results

\* check_quality_gates: the for loop over self.quality_rules
RECURSIVE RunRules(_, _, _)
RunRules(results, rules, context) ==
    IF rules = <<>> THEN results
    ELSE RunRules(RunRule(results, Head(rules), context), Tail(rules), context)

\* Mutant: the new result takes the place of the project's history.
Replaced(history, results) == <<results>>

\* self.quality_history[project_name].append(results)
Recorded(history, results) == Append(history, results)

\* AutomatedQualityGates.add_quality_rule: raises ValueError for a rule that
\* lacks a required field, appends the rule otherwise.
add_quality_rule(rule) ==
    /\ gate_event.n < MaxGateCalls
    /\ HasRequiredFields(rule) => Len(quality_rules) < MaxRules
    /\ IF HasRequiredFields(rule)
          THEN quality_rules' = Append(quality_rules, rule)
          ELSE UNCHANGED quality_rules
    /\ gate_event' = [op |-> "add", n |-> gate_event.n + 1, rule |-> rule,
                      raised |-> ~HasRequiredFields(rule)]
    /\ UNCHANGED quality_history
    /\ UNCHANGED <<supervisionVars, thr, failed_probes, metricsVars, assignVars, scanVars, seqVars, trendVars>>

\* AutomatedQualityGates.check_quality_gates
check_quality_gates(project, context) ==
    /\ gate_event.n < MaxGateCalls
    /\ LET results == RunRules(NewResults(project), quality_rules, context)
       IN  /\ quality_history' =
                 [quality_history EXCEPT ![project] = Recorded(@, results)]
           /\ gate_event' = [op |-> "check", n |-> gate_event.n + 1,
                             project |-> project, context |-> context,
                             rules |-> quality_rules, result |-> results]
    /\ UNCHANGED quality_rules
    /\ UNCHANGED <<supervisionVars, thr, failed_probes, metricsVars, assignVars, scanVars, seqVars, trendVars>>

NextGates ==
    \/ \E rule \in GateRules : add_quality_rule(rule)
    \/ \E project \in Projects, context \in GateContexts :
           check_quality_gates(project, context)

SpecGates == Init /\ [][NextGates]_vars

\* ------------------------------- SpecEval: one rule, one gate run, all cases

\* The comparison fields of the rules of SpecEval: none, the five operators
\* and one that _evaluate_threshold does not know.
EvalComparisons ==
    {Absent} \cup {<<c>> : c \in {">=", "<=", ">", "<", "==", "!="}}

\* The one rule registered in SpecEval.
EvalRules ==
    {Rule(<<"cov">>, <<check_function>>, <<severity>>, <<threshold>>, comparison, Absent) :
        check_function \in {Key("test_coverage"), Returns(80), Raising},
        severity \in {"warning", "error"},
        threshold \in {0, 80, 85},
        comparison \in EvalComparisons}

\* The contexts of SpecEval: without the rule's key, or with a value around
\* the thresholds.
EvalContexts ==
    [test_coverage : {Absent, <<0>>, <<79>>, <<80>>, <<81>>},
     security_vulnerabilities : {Absent}]

\* A rule is registered, then the gates are run once.
NextEval ==
    \/ \E rule \in EvalRules : gate_event.n = 0 /\ add_quality_rule(rule)
    \/ \E context \in EvalContexts :
           gate_event.n = 1 /\ check_quality_gates("p1", context)

SpecEval == Init /\ [][NextEval]_vars

\* ------------------------------------- SpecSeq: one caller of the assignment

\* The capability dicts registered in SpecSeq (skill -> level in tenths): a1
\* has skill x only, a2 has x, both skills, or y only.
SeqCapabilities(a) ==
    IF a = "a1" THEN {[x |-> 9]}
    ELSE {[x |-> 9], [x |-> 3, y |-> 9], [y |-> 3]}

\* The task dicts passed in SpecSeq.
SeqTasks ==
    {[id |-> "t1", required_skills |-> r, complexity |-> c, priority |-> p] :
        r \in {Absent, <<[x |-> 5]>>, <<[x |-> 0]>>, <<[x |-> 5, y |-> 10]>>},
        c \in {Absent, <<10>>},
        p \in {Absent}} \cup
    {[id |-> "t1", required_skills |-> <<[x |-> 5]>>, complexity |-> <<2>>,
      priority |-> <<"high">>]}

\* The entry an earlier call appended for a task of complexity 1.0 at time 0.
EarlierEntry ==
    [task_id |-> "t0", assigned_at |-> 0, complexity |-> 10, priority |-> "medium"]

\* Mutant: the best score starts below every score.
BeforeLoopBelowZero(tracker) ==
    [tracker |-> tracker, best_agent |-> NoAgent,
     best_score |-> [num |-> -1, den |-> 1], scored |-> <<>>]

\* Mutant: the loop starts with a2 as the best agent.
BeforeLoopWithAgent(tracker) ==
    [tracker |-> tracker, best_agent |-> "a2", best_score |-> Zero,
     scored |-> <<>>]

\* What assign_optimal_task holds before its for loop.
BeforeLoop(tracker) ==
    [tracker |-> tracker, best_agent |-> NoAgent, best_score |-> Zero,
     scored |-> <<>>]

\* One iteration of the for loop of assign_optimal_task, for a candidate with
\* a capability vector: _calculate_workload_factor stores the pruned list,
\* the three factors are multiplied and the candidate replaces the best one
\* if its score is strictly greater.
Consider(agent_name, task, acc) ==
    LET capability_score ==
            CapabilityMatch(agent_capabilities[agent_name][1], RequirementsOf(task))
        active_tasks == ActiveTasks(acc.tracker[agent_name], now)
        workload_factor == WorkloadFactor(active_tasks)
        performance_factor == PerformanceFactor(agent_name)
        total_score ==
            Times(Times(capability_score, performance_factor), workload_factor)
        better == Greater(total_score, acc.best_score)
    IN  [tracker |-> [acc.tracker EXCEPT ![agent_name] = active_tasks],
         best_agent |-> IF better THEN agent_name ELSE acc.best_agent,
         best_score |-> IF better THEN total_score ELSE acc.best_score,
         scored |-> Append(acc.scored,
                           [agent |-> agent_name,
                            capabilities |-> agent_capabilities[agent_name][1],
                            capability_score |-> capability_score,
                            workload_score |-> SumComplexity(active_tasks),
                            workload_factor |-> workload_factor,
                            performance_factor |-> performance_factor,
                            total_score |-> total_score])]

\* The for loop of assign_optimal_task from candidate i on.
RECURSIVE ConsiderAll(_, _, _, _)
ConsiderAll(available_agents, i, task, acc) ==
    IF i > Len(available_agents) THEN acc
    ELSE LET agent_name == available_agents[i]
         IN  IF agent_capabilities[agent_name] = Absent
                THEN ConsiderAll(available_agents, i + 1, task, acc)
                ELSE ConsiderAll(available_agents, i + 1, task,
                                 Consider(agent_name, task, acc))

\* assign_optimal_task, as one call
assign_optimal_task(task, available_agents) ==
    /\ assign_event.n < MaxSeqCalls
    /\ LET outcome ==
               IF available_agents = <<>> THEN BeforeLoop(workload_tracker)
               ELSE ConsiderAll(available_agents, 1, task,
                                BeforeLoop(workload_tracker))
           best_agent == outcome.best_agent
           entry == [task_id |-> task.id, assigned_at |-> now,
                     complexity |-> ComplexityOf(task),
                     priority |-> PriorityOf(task)]
       IN  /\ workload_tracker' =
                 IF best_agent # NoAgent
                    THEN [outcome.tracker EXCEPT ![best_agent] = Append(@, entry)]
                    ELSE outcome.tracker
           /\ assign_event' =
                 [op |-> "assign", n |-> assign_event.n + 1, task |-> task,
                  available |-> available_agents, result |-> best_agent,
                  registered |-> {a \in Agents : agent_capabilities[a] # Absent},
                  before |-> workload_tracker, at |-> now,
                  scored |-> outcome.scored]
    /\ UNCHANGED <<agent_capabilities, avg_quality_score, now, asg, appended>>
    /\ UNCHANGED <<supervisionVars, thr, failed_probes, metricsVars, scanVars, gateVars, trendVars>>

\* Capabilities are registered for an agent before it can be given a task:
\* a2 may already hold two entries of an earlier day.
InitSeq ==
    /\ health_checks = [a \in Agents |-> NotRegistered]
    /\ health_keys = <<>>
    /\ recovery_strategies = {}
    /\ monitoring_active = FALSE
    /\ pc = "idle"
    /\ iter_pos = 0
    /\ iter_size = 0
    /\ cur = NoAgent
    /\ event = [op |-> "init"]
    /\ streak = [a \in Agents |-> 0]
    /\ pending = NoAgent
    /\ checked = {}
    /\ thr = [t \in Threads |-> IdleThread]
    /\ failed_probes = [a \in Agents |-> 0]
    /\ metrics_collectors = <<>>
    /\ metrics_active = FALSE
    /\ mpc = "idle"
    /\ m_pos = 0
    /\ m_size = 0
    /\ m_cycles = FALSE
    /\ agent_capabilities \in
          [Agents -> {Absent} \cup {<<c>> : c \in UNION {SeqCapabilities(a) : a \in Agents}}]
    /\ \A a \in Agents :
          agent_capabilities[a] # Absent => agent_capabilities[a][1] \in SeqCapabilities(a)
    /\ workload_tracker \in
          [Agents -> {<<>>, <<EarlierEntry, EarlierEntry>>}]
    /\ workload_tracker["a1"] = <<>>
    /\ \A a \in Agents : workload_tracker[a] # <<>> => agent_capabilities[a] # Absent
    /\ avg_quality_score \in [Agents -> QualityScores]
    /\ now = 0
    /\ asg = [c \in Callers |-> IdleCaller]
    /\ appended = {}
    /\ NoCapture
    /\ NoGates
    /\ NoCalls
    /\ NoSamples

NextSeq ==
    \/ \E a \in Agents : \E capabilities \in SeqCapabilities(a) :
           register_agent_capabilities(a, capabilities)
    \/ \E task \in SeqTasks, available_agents \in AvailableLists \cup {<<"a2">>} :
           assign_optimal_task(task, available_agents)
    \/ clock_tick

SpecSeq == InitSeq /\ [][NextSeq]_vars

\* ------------------------------------- SpecLoad: the workload factor alone

\* A workload list of k entries of the given complexity, assigned at time 0.
Entries(k, complexity) ==
    [i \in 1..k |-> [EarlierEntry EXCEPT !.complexity = complexity]]

\* The workload lists SpecLoad starts with.
Loads == {Entries(k, c) : k \in 0..MaxEntries, c \in {5, 10}}

\* The computations of SpecLoad so far, oldest first.
Computed == IF assign_event.op = "factor" THEN assign_event.computed ELSE <<>>

\* _calculate_workload_factor, as one call
calculate_workload_factor(agent_name) ==
    /\ assign_event.n < MaxLoadCalls
    /\ LET current_tasks == workload_tracker[agent_name]
           active_tasks == ActiveTasks(current_tasks, now)
       IN  /\ workload_tracker' =
                 [workload_tracker EXCEPT ![agent_name] = active_tasks]
           /\ assign_event' =
                 [op |-> "factor", n |-> assign_event.n + 1,
                  computed |->
                      Append(Computed,
                             [agent |-> agent_name, at |-> now,
                              before |-> current_tasks,
                              workload_score |-> SumComplexity(active_tasks),
                              factor |-> WorkloadFactor(active_tasks)])]
    /\ UNCHANGED <<agent_capabilities, avg_quality_score, now, asg, appended>>
    /\ UNCHANGED <<supervisionVars, thr, failed_probes, metricsVars, scanVars, gateVars, trendVars>>

\* Both agents are registered and hold the entries of earlier calls.
InitLoad ==
    /\ health_checks = [a \in Agents |-> NotRegistered]
    /\ health_keys = <<>>
    /\ recovery_strategies = {}
    /\ monitoring_active = FALSE
    /\ pc = "idle"
    /\ iter_pos = 0
    /\ iter_size = 0
    /\ cur = NoAgent
    /\ event = [op |-> "init"]
    /\ streak = [a \in Agents |-> 0]
    /\ pending = NoAgent
    /\ checked = {}
    /\ thr = [t \in Threads |-> IdleThread]
    /\ failed_probes = [a \in Agents |-> 0]
    /\ metrics_collectors = <<>>
    /\ metrics_active = FALSE
    /\ mpc = "idle"
    /\ m_pos = 0
    /\ m_size = 0
    /\ m_cycles = FALSE
    /\ agent_capabilities = [a \in Agents |-> <<CapabilitiesOf(a)>>]
    /\ workload_tracker \in [Agents -> Loads]
    /\ avg_quality_score = [a \in Agents |-> Absent]
    /\ now = 0
    /\ asg = [c \in Callers |-> IdleCaller]
    /\ appended = {}
    /\ NoCapture
    /\ NoGates
    /\ NoCalls
    /\ NoSamples

NextLoad ==
    \/ \E agent_name \in Agents : calculate_workload_factor(agent_name)
    \/ clock_tick

SpecLoad == InitLoad /\ [][NextLoad]_vars

\* ------------------------------------- SpecTrend: the performance store

\* The AgentMetrics values recorded in SpecTrend, with the columns the trend
\* reads: response time and the two rates in tenths, each of them nullable.
MetricsSamples(a) ==
    IF a = "a1"
       THEN {[agent_name |-> a, response_time_avg |-> Absent,
              task_completion_rate |-> Absent, quality_score |-> Absent],
             [agent_name |-> a, response_time_avg |-> <<20>>,
              task_completion_rate |-> <<10>>, quality_score |-> <<1>>],
             [agent_name |-> a, response_time_avg |-> Absent,
              task_completion_rate |-> <<5>>, quality_score |-> <<5>>],
             [agent_name |-> a, response_time_avg |-> <<40>>,
              task_completion_rate |-> Absent, quality_score |-> <<9>>]}
       ELSE {[agent_name |-> a, response_time_avg |-> <<20>>,
              task_completion_rate |-> <<10>>, quality_score |-> <<5>>]}

\* Mutant: the row takes the place of the last row of the table.
record_over_last_row(metrics) ==
    /\ Len(agent_metrics) < MaxRows
    /\ agent_metrics' =
          Append(IF agent_metrics = <<>> THEN <<>>
                 ELSE SubSeq(agent_metrics, 1, Len(agent_metrics) - 1),
                 [agent_name |-> metrics.agent_name, timestamp |-> now,
                  response_time |-> metrics.response_time_avg,
                  task_completion_rate |-> metrics.task_completion_rate,
                  quality_score |-> metrics.quality_score])
    /\ trend_event' = [op |-> "record"]
    /\ UNCHANGED <<agent_capabilities, workload_tracker, avg_quality_score, now, asg, appended>>
    /\ UNCHANGED <<supervisionVars, thr, failed_probes, metricsVars, scanVars, gateVars, seqVars>>

\* AdvancedMonitoring.record_agent_metrics: the row gets the current time as
\* its timestamp.
record_agent_metrics(metrics) ==
    /\ Len(agent_metrics) < MaxRows
    /\ agent_metrics' =
          Append(agent_metrics,
                 [agent_name |-> metrics.agent_name, timestamp |-> now,
                  response_time |-> metrics.response_time_avg,
                  task_completion_rate |-> metrics.task_completion_rate,
                  quality_score |-> metrics.quality_score])
    /\ trend_event' = [op |-> "record"]
    /\ UNCHANGED <<agent_capabilities, workload_tracker, avg_quality_score, now, asg, appended>>
    /\ UNCHANGED <<supervisionVars, thr, failed_probes, metricsVars, scanVars, gateVars, seqVars>>

\* WHERE agent_name = ? AND timestamp > datetime('now', '-{} days')
\* ORDER BY timestamp
SelectedRows(agent_name, days) ==
    SelectSeq(agent_metrics,
              LAMBDA r : r.agent_name = agent_name /\ r.timestamp > now - 24 * days)

\* [r[i] for r in results if r[i] is not None]
RECURSIVE NotNone(_, _)
NotNone(results, column) ==
    IF results = <<>> THEN <<>>
    ELSE IF Head(results)[column] = Absent THEN NotNone(Tail(results), column)
    ELSE <<Head(results)[column][1]>> \o NotNone(Tail(results), column)

\* sum(values)
RECURSIVE Sum(_)
Sum(values) == IF values = <<>> THEN 0 ELSE Head(values) + Sum(Tail(values))

\* sum(values) / len(values), for values in tenths
Mean(values) == Reduced([num |-> Sum(values), den |-> 10 * Len(values)])

\* Mutant: a column without values has the default 0.8 as its mean.
MeanOrDefault(values) ==
    IF values # <<>> THEN Mean(values) ELSE Tenths(DefaultPerformance)

\* sum(values) / len(values) if values else 0
MeanOrZero(values) == IF values # <<>> THEN Mean(values) ELSE Zero

\* Mutant: equal halves count as improving.
CalculateTrendOrEqual(values) ==
    IF Len(values) < 2 THEN TRUE
    ELSE LET mid_point == Len(values) \div 2
         IN  ~Greater(Mean(SubSeq(values, 1, mid_point)),
                      Mean(SubSeq(values, mid_point + 1, Len(values))))

\* AdvancedMonitoring._calculate_trend
CalculateTrend(values) ==
    IF Len(values) < 2 THEN TRUE
    ELSE LET mid_point == Len(values) \div 2
             first_half_avg == Mean(SubSeq(values, 1, mid_point))
             second_half_avg == Mean(SubSeq(values, mid_point + 1, Len(values)))
         IN  Greater(second_half_avg, first_half_avg)

\* Mutant: a column without values has no mean in the result.
TrendOfWithoutZeros(agent_name, results) ==
    IF results = <<>> THEN NoData
    ELSE IF NotNone(results, "response_time") = <<>> THEN NoData
    ELSE [agent_name |-> agent_name,
          data_points |-> Len(results),
          avg_response_time |-> MeanOrZero(NotNone(results, "response_time")),
          avg_completion_rate |->
              MeanOrZero(NotNone(results, "task_completion_rate")),
          avg_quality_score |-> MeanOrZero(NotNone(results, "quality_score")),
          trend_improving |-> CalculateTrend(NotNone(results, "quality_score")),
          last_update |-> results[Len(results)].timestamp]

\* What get_agent_performance_trend makes of the rows it selected.
TrendOf(agent_name, results) ==
    IF results = <<>> THEN NoData
    ELSE [agent_name |-> agent_name,
          data_points |-> Len(results),
          avg_response_time |-> MeanOrZero(NotNone(results, "response_time")),
          avg_completion_rate |->
              MeanOrZero(NotNone(results, "task_completion_rate")),
          avg_quality_score |-> MeanOrZero(NotNone(results, "quality_score")),
          trend_improving |-> CalculateTrend(NotNone(results, "quality_score")),
          last_update |-> results[Len(results)].timestamp]

\* AdvancedMonitoring.get_agent_performance_trend
get_agent_performance_trend(agent_name, days) ==
    /\ LET results == SelectedRows(agent_name, days)
       IN  trend_event' =
               [op |-> "trend", agent_name |-> agent_name, days |-> days,
                quality_scores |-> NotNone(results, "quality_score"),
                result |-> TrendOf(agent_name, results)]
    /\ UNCHANGED agent_metrics
    /\ UNCHANGED <<agent_capabilities, workload_tracker, avg_quality_score, now, asg, appended>>
    /\ UNCHANGED <<supervisionVars, thr, failed_probes, metricsVars, scanVars, gateVars, seqVars>>

\* IntelligentTaskAssignment._calculate_performance_factor, where the query
\* on the store either raises or returns the trend of the last 3 days.
calculate_performance_factor(agent_name, raised) ==
    /\ LET trend_data == TrendOf(agent_name, SelectedRows(agent_name, PerformanceDays))
       IN  trend_event' =
               [op |-> "factor", agent_name |-> agent_name, raised |-> raised,
                returned |-> PerformanceFactorOf(raised, trend_data)]
    /\ UNCHANGED agent_metrics
    /\ UNCHANGED <<agent_capabilities, workload_tracker, avg_quality_score, now, asg, appended>>
    /\ UNCHANGED <<supervisionVars, thr, failed_probes, metricsVars, scanVars, gateVars, seqVars>>

\* Days pass.
trend_clock_tick ==
    /\ now < MaxTrendHours
    /\ now' = now + TrendTickHours
    /\ trend_event' = [op |-> "tick"]
    /\ UNCHANGED agent_metrics
    /\ UNCHANGED <<agent_capabilities, workload_tracker, avg_quality_score, asg, appended>>
    /\ UNCHANGED <<supervisionVars, thr, failed_probes, metricsVars, scanVars, gateVars, seqVars>>

NextTrend ==
    \/ \E a \in Agents : \E metrics \in MetricsSamples(a) :
           record_agent_metrics(metrics)
    \/ \E a \in Agents, days \in {PerformanceDays, DefaultDays} :
           get_agent_performance_trend(a, days)
    \/ \E a \in Agents, raised \in BOOLEAN :
           calculate_performance_factor(a, raised)
    \/ trend_clock_tick

SpecTrend == Init /\ [][NextTrend]_vars

\* ------------------------------- SpecRecord: supervision while time passes

\* The health_config dicts registered in SpecRecord: recovery after the first
\* failed probe, with each of the strategy names.
RecordConfigs ==
    {[max_failures |-> <<1>>, recovery_strategy |-> <<s>>] : s \in StrategyNames}

NextRecord ==
    \/ \E a \in Agents, config \in RecordConfigs : register_agent(a, config)
    \/ register_recovery_strategy
    \/ start_health_monitoring
    \/ stop_health_monitoring
    \/ LoopStep
    \/ clock_tick

SpecRecord == Init /\ [][NextRecord]_vars

\* ------------------------------------------------------------------ claims

\* C1: an agent whose consecutive-failure counter is below its max_failures
\* (default 3) gets no recovery: handle_unhealthy_agent, called for it, takes
\* the threshold branch for no strategy, and an agent that awaits recovery has
\* a counter at or above its max_failures.
C1_NoRecoveryBelowThreshold ==
    /\ (event.op = "handle" /\ event.failures < event.max_failures)
          => (~event.entered /\ event.dispatched = "none")
    /\ \A a \in RegisteredAgents :
          Failures(a) < MaxFailuresOf(health_checks[a].config) => pending # a

\* handle_unhealthy_agent ran for an agent with the default threshold and
\* fewer failures than that, and one with reached threshold was recovered.
C1_Witness ==
    /\ event.op = "handle"
    /\ event.max_failures = DefaultMaxFailures
    /\ event.failures = DefaultMaxFailures - 1
    /\ event.dispatched = "none"

\* C2: a failed probe cycle of check_agent_health (send returned false, the
\* marker is absent, or the Communicator raised) adds exactly 1 to the counter
\* of the probed agent and leaves every other record as it was.
C2_FailedProbeAddsOne ==
    [][(event'.op = "probe" /\ event'.outcome # "marker_found")
          => /\ health_checks'[event'.agent].consecutive_failures
                    = Failures(event'.agent) + 1
             /\ \A b \in Agents \ {event'.agent} :
                    health_checks'[b] = health_checks[b]]_vars

\* A probe in which capture_pane raised was counted, on top of an earlier
\* failure, while the other agent holds a count of its own.
C2_Witness ==
    /\ event.op = "probe"
    /\ event.outcome = "capture_raise"
    /\ event.before = 1
    /\ Failures(event.agent) = 2
    /\ \E b \in RegisteredAgents \ {event.agent} : Failures(b) = 1

\* The step that produced this state lowered nothing, or is one of the
\* resets the code makes: a probe that found the marker, or a restart that
\* raised nothing.
ResetByProbeOrRecovery(a) ==
    \/ event'.op = "probe" /\ event'.agent = a /\ event'.outcome = "marker_found"
    \/ /\ event'.op = "handle"
       /\ event'.agent = a
       /\ event'.dispatched = "restart"
       /\ ~RestartRaised(event'.outcome)

Lowered(a) ==
    /\ Registered(a)
    /\ Registered(a)'
    /\ health_checks'[a].consecutive_failures < Failures(a)

\* C3 as stated: the counter of a registered agent goes down only in a
\* successful probe or a successful recovery.
C3_ResetOnlyByProbeOrRecovery ==
    [][\A a \in Agents : Lowered(a) => ResetByProbeOrRecovery(a)]_vars

\* C3, amended: the counter of a registered agent goes down only in a probe
\* that finds the marker, in a restart that raises nothing, or when
\* register_agent is called again for the agent; and then it goes to 0.
C3_ResetOnlyByProbeRecoveryOrRegister ==
    [][\A a \in Agents :
          Lowered(a) =>
             /\ health_checks'[a].consecutive_failures = 0
             /\ \/ ResetByProbeOrRecovery(a)
                \/ event'.op = "register" /\ event'.agent = a]_vars

\* register_agent was called for an agent that had failures counted.
C3_Witness ==
    /\ event.op = "register"
    /\ event.was_registered
    /\ event.before >= 2
    /\ Failures(event.agent) = 0

\* C4 as stated: after a restart recovery the counter is 0, whatever happened
\* in it.
C4_RestartAlwaysResets ==
    (event.op = "handle" /\ event.dispatched = "restart")
        => Failures(event.agent) = 0

\* C4, amended: after a restart recovery in which nothing raised (whether or
\* not the reinitialization message was delivered) the counter is 0, below
\* max_failures; after one in which a step raised the counter is what it was,
\* at or above max_failures.
C4_RestartResetsUnlessRaised ==
    (event.op = "handle" /\ event.dispatched = "restart")
        => IF RestartRaised(event.outcome)
           THEN /\ Failures(event.agent) = event.failures
                /\ Failures(event.agent) >= event.max_failures
           ELSE /\ Failures(event.agent) = 0
                /\ Failures(event.agent) < event.max_failures

\* A restart whose reinitialization message was not delivered has reset the
\* counter.
C4_Witness ==
    /\ event.op = "handle"
    /\ event.dispatched = "restart"
    /\ event.outcome = "send_false"
    /\ event.failures >= 2
    /\ Failures(event.agent) = 0

\* The strategy handle_unhealthy_agent runs for a config, given the registry.
Resolved(strategy) ==
    IF strategy \in {"restart", "notify_only"} THEN strategy
    ELSE IF strategy \in recovery_strategies THEN "custom"
    ELSE "none"

\* C5: when a failed probe brings the counter to max_failures or above, the
\* recovery is decided in the same iteration, before the next agent is probed
\* and before the loop sleeps; counted from 0, the threshold branch is taken on
\* the max_failures-th consecutive failed probe and on every later one, and on
\* none before; the strategy run is the configured one.
C5_RecoveryInSameCycle ==
    /\ pending # NoAgent => (pc = "handle" /\ cur = pending)
    /\ event.op = "handle" =>
          /\ event.entered <=> event.streak >= event.max_failures
          /\ event.entered => event.dispatched = Resolved(event.strategy)

\* The second failed probe in a row of an agent with max_failures 2 was
\* followed by its restart, with the iterator not yet advanced.
C5_Witness ==
    /\ event.op = "handle"
    /\ event.entered
    /\ event.max_failures = 2
    /\ event.streak = 2
    /\ event.dispatched = "restart"
    /\ pc = "iter"
    /\ iter_pos < iter_size

\* C6: an exception in one agent's probe or recovery leaves check_all_agents
\* iterating: the cycle ends only when the iterator is exhausted, with every
\* registered agent probed, or when the dict changed size; and the loop thread
\* ends only at a while test that reads monitoring_active as false.
C6_ExceptionContained ==
    [][/\ (pc' = "sleep" /\ pc # "sleep")
            => \/ Len(health_keys) # iter_size
               \/ checked = RegisteredAgents
       /\ (pc' = "done" /\ pc # "done")
            => (pc = "while" /\ ~monitoring_active)]_vars

\* The recovery handler of the first of two agents raised and the iterator
\* stands ready to yield the second agent in the same cycle.
C6_Witness ==
    /\ event.op = "handle"
    /\ event.dispatched = "custom"
    /\ event.outcome = "raise"
    /\ pc = "iter"
    /\ iter_pos = 1
    /\ iter_size = 2
    /\ Len(health_keys) = 2


\* The step in which thread t sends the probe of agent b.
ProbeOf(t, b) == conc_send(t) /\ thr[t].agent = b

\* Thread t stands in the probe of its current agent, in the observation
\* delay or in a Communicator call that does not come back.
BlockedInProbe(t) == thr[t].pc \in {"wait", "hung"}

\* C7: with two supervision threads on the same agent no increment is lost and
\* no reset is overwritten by a stale increment: the counter equals the number
\* of failed probes since the last reset.
C7_CounterCountsFailedProbes ==
    \A a \in Agents : Failures(a) = failed_probes[a]

\* C8: an entry a call has appended to an agent's workload list stays in that
\* list for as long as it has not expired.
C8_NoWorkloadEntryLost ==
    \A pair \in appended :
        Active(pair[2], now) =>
            \E i \in 1..Len(workload_tracker[pair[1]]) :
                workload_tracker[pair[1]][i] = pair[2]

\* C9: while a thread is blocked in the probe of one agent, the probe of every
\* agent it has not probed yet in this cycle can proceed: some running thread
\* can send it.
C9_BlockedProbeIsLocal ==
    \A t \in Threads :
        BlockedInProbe(t) =>
            \A b \in RegisteredAgents \ thr[t].probed :
                \E u \in Threads : ENABLED ProbeOf(u, b)

\* C10: each loop reads its stop flag only in the while test, once per cycle:
\* clearing the flag moves no thread and changes no record, a thread ends only
\* at a while test that reads the flag false, a while test that reads it false
\* starts no cycle, and once the flag is false the thread finishes its cycle
\* and ends.
C10_CooperativeStop ==
    /\ [][/\ (monitoring_active /\ ~monitoring_active')
               => (pc' = pc /\ health_checks' = health_checks)
          /\ (pc' = "done" /\ pc # "done") => (pc = "while" /\ ~monitoring_active)
          /\ (pc = "while" /\ pc' # "while" /\ ~monitoring_active) => pc' = "done"
          /\ (metrics_active /\ ~metrics_active') => mpc' = mpc
          /\ (mpc' = "done" /\ mpc # "done") => (mpc = "while" /\ ~metrics_active)
          /\ (mpc = "while" /\ mpc' # "while" /\ ~metrics_active) => mpc' = "done"
         ]_vars
    /\ (~monitoring_active /\ pc \notin {"idle", "done"}) ~> (pc = "done")
    /\ (~metrics_active /\ mpc \notin {"idle", "done"}) ~> (mpc = "done")

\* Both loops have run a cycle, were stopped and have ended.
C10_Witness ==
    /\ pc = "done"
    /\ ~monitoring_active
    /\ event.op = "loop_exit"
    /\ checked = Agents
    /\ mpc = "done"
    /\ ~metrics_active
    /\ m_cycles

\* The 1-based positions at which the marker starts in a text.
Occurrences(text) ==
    {i \in 1..(Len(text) - MarkerLen + 1) :
        \A k \in 1..MarkerLen : text[i + k - 1] = Marker[k]}

\* C11: a probe is judged healthy iff some occurrence of the marker in the
\* captured output starts inside its last 500 characters; an occurrence that
\* starts before them, and an empty capture, do not count. For a capture with
\* at most one occurrence MarkerFound gives the same verdict from the length
\* and the position alone.
C11_MarkerOnlyInWindow ==
    judged \in {"healthy", "failed"} =>
        /\ (judged = "healthy") <=>
              \E i \in Occurrences(recent_output) : i > Len(recent_output) - Window
        /\ recent_output = <<>> => judged = "failed"
        /\ \A i \in Occurrences(recent_output) :
              Occurrences(recent_output) = {i} =>
                 ((judged = "healthy") <=>
                     MarkerFound([len |-> Len(recent_output), at |-> i]))

\* A capture whose only marker starts one character before the window was
\* judged failed.
C11_Witness ==
    /\ judged = "failed"
    /\ Occurrences(recent_output) = {Len(recent_output) - Window}

\* C12: the result of a gate run has passed = true iff none of the outcomes
\* it holds has status failed or error; a failed rule of severity warning is
\* enough to make passed false.
C12_PassedIffNoFailure ==
    gate_event.op = "check" =>
        LET r == gate_event.result
        IN  r.passed <=>
               /\ \A i \in 1..Len(r.checks) :
                     r.checks[i].status \notin {"failed", "error"}
               /\ \A i \in 1..Len(r.errors) :
                     r.errors[i].status \notin {"failed", "error"}

\* A run in which one rule passed and the only failure is of severity warning
\* has passed = false.
C12_Witness ==
    /\ gate_event.op = "check"
    /\ Len(gate_event.result.checks) = 2
    /\ Len(gate_event.result.warnings) = 1
    /\ gate_event.result.errors = <<>>
    /\ ~gate_event.result.passed

\* C13: the checks list of a gate run holds exactly one outcome per registered
\* rule, in registration order, also for a rule whose evaluator raises.
C13_OneOutcomePerRuleInChecks ==
    gate_event.op = "check" =>
        LET r == gate_event.result
            rules == gate_event.rules
        IN  /\ Len(r.checks) = Len(rules)
            /\ \A i \in 1..Len(r.checks) :
                  r.checks[i].rule_name = rules[i].name[1]

\* C14: a gate run with a rule whose evaluator raises returns a result, which
\* is recorded; its errors list holds an outcome for that rule with status
\* error and severity error, and passed is false.
C14_EvaluatorErrorContained ==
    gate_event.op = "check" =>
        LET r == gate_event.result
            rules == gate_event.rules
            history == quality_history[gate_event.project]
        IN  /\ history # <<>>
            /\ history[Len(history)] = r
            /\ \A i \in 1..Len(rules) :
                  rules[i].check_function[1].kind = "raises" =>
                     /\ ~r.passed
                     /\ \E j \in 1..Len(r.errors) :
                           /\ r.errors[j].rule_name = rules[i].name[1]
                           /\ r.errors[j].status = "error"
                           /\ r.errors[j].severity = "error"

\* A run over a raising rule of severity warning and a rule that passed.
C14_Witness ==
    /\ gate_event.op = "check"
    /\ gate_event.rules = <<RaisingRule, SecurityRule>>
    /\ Len(gate_event.result.checks) = 1
    /\ gate_event.result.checks[1].status = "passed"
    /\ Len(gate_event.result.errors) = 1
    /\ ~gate_event.result.passed

FailedWith(outcome, severity) ==
    outcome.status = "failed" /\ outcome.severity = severity

\* C15: warnings holds exactly the failed outcomes of severity warning and
\* errors exactly the failed outcomes of severity error and the evaluator
\* errors, each in rule order; no passed outcome is in either list and no
\* outcome is in both.
C15_WarningsAndErrorsPartition ==
    gate_event.op = "check" =>
        LET r == gate_event.result
        IN  /\ r.warnings =
                  SelectSeq(r.checks, LAMBDA o : FailedWith(o, "warning"))
            /\ SelectSeq(r.errors, LAMBDA o : o.status = "failed") =
                  SelectSeq(r.checks, LAMBDA o : FailedWith(o, "error"))
            /\ \A j \in 1..Len(r.errors) :
                  /\ r.errors[j].status \in {"failed", "error"}
                  /\ r.errors[j].severity = "error"
            /\ \A i \in 1..Len(r.warnings) :
                  /\ r.warnings[i].status = "failed"
                  /\ r.warnings[i].severity = "warning"

\* A run with one failure of severity warning and one of severity error.
C15_Witness ==
    /\ gate_event.op = "check"
    /\ Len(gate_event.result.checks) = 2
    /\ Len(gate_event.result.warnings) = 1
    /\ Len(gate_event.result.errors) = 1
    /\ gate_event.result.errors[1].status = "failed"

\* C16: a check_quality_gates call appends its result to the end of the
\* project's history and changes no other history and no rule; no other call
\* changes a history.
C16_HistoryAppendOnly ==
    [][gate_event'.n # gate_event.n =>
          IF gate_event'.op = "check"
             THEN /\ quality_history' =
                        [quality_history EXCEPT ![gate_event'.project] =
                            Append(@, gate_event'.result)]
                  /\ quality_rules' = quality_rules
             ELSE quality_history' = quality_history]_vars

\* A project's history holds a passed run followed by a failed one, the other
\* project's history is empty.
C16_Witness ==
    /\ Len(quality_history["p1"]) = 2
    /\ quality_history["p1"][1].passed
    /\ ~quality_history["p1"][2].passed
    /\ quality_history["p2"] = <<>>

\* C17: add_quality_rule raises iff the rule lacks name, check_function,
\* severity or threshold, and then leaves the rule set as it was; otherwise
\* the rule becomes the last of the rule set; no step removes or changes a
\* registered rule.
C17_AddQualityRule ==
    [][/\ (gate_event'.n # gate_event.n /\ gate_event'.op = "add") =>
             LET rule == gate_event'.rule
                 missing == \E f \in {"name", "check_function", "severity", "threshold"} :
                                rule[f] = Absent
             IN  /\ gate_event'.raised <=> missing
                 /\ missing => quality_rules' = quality_rules
                 /\ ~missing => quality_rules' = Append(quality_rules, rule)
       /\ Len(quality_rules') >= Len(quality_rules)
       /\ SubSeq(quality_rules', 1, Len(quality_rules)) = quality_rules
      ]_vars

\* A rule without threshold was rejected and the one registered rule is still
\* the rule set.
C17_Witness ==
    /\ gate_event.op = "add"
    /\ gate_event.raised
    /\ gate_event.rule.threshold = Absent
    /\ quality_rules = <<SecurityRule>>

\* The check_function of the one registered rule returned a value in the last
\* gate run.
Evaluated ==
    /\ gate_event.op = "check"
    /\ Len(gate_event.rules) = 1
    /\ gate_event.rules[1].check_function[1].kind # "raises"

\* C18: for a rule with one of the five operators the status is passed iff
\* the actual value stands in that relation to the threshold and failed
\* otherwise, and the run passes iff the rule does; test_coverage 80 against
\* >= 85 gives one failed outcome and passed = false.
C18_ComparisonDecidesStatus ==
    Evaluated =>
        LET rule == gate_event.rules[1]
            r == gate_event.result
        IN  (rule.comparison # Absent
               /\ rule.comparison[1] \in {">=", "<=", ">", "<", "=="}) =>
                /\ Len(r.checks) = 1
                /\ LET o == r.checks[1]
                       a == o.actual_value
                       t == o.threshold
                       c == rule.comparison[1]
                   IN  /\ t = rule.threshold[1]
                       /\ rule.check_function[1].kind = "returns" =>
                             a = rule.check_function[1].value
                       /\ (rule.check_function[1].kind = "key"
                             /\ gate_event.context.test_coverage # Absent) =>
                                a = gate_event.context.test_coverage[1]
                       /\ o.status \in {"passed", "failed"}
                       /\ (o.status = "passed") <=>
                             \/ c = ">=" /\ a >= t
                             \/ c = "<=" /\ a =< t
                             \/ c = ">" /\ a > t
                             \/ c = "<" /\ a < t
                             \/ c = "==" /\ a = t
                       /\ r.passed <=> (o.status = "passed")
                       /\ (rule.check_function[1].kind = "key"
                             /\ gate_event.context.test_coverage = <<80>>
                             /\ c = ">=" /\ rule.threshold = <<85>>) =>
                                (o.status = "failed" /\ ~r.passed)

\* The rule on test_coverage with threshold 85 and >= was run on a context
\* with test_coverage 80: one outcome, failed, and the run did not pass.
C18_Witness ==
    /\ Evaluated
    /\ gate_event.rules[1].check_function[1] = Key("test_coverage")
    /\ gate_event.rules[1].threshold = <<85>>
    /\ gate_event.rules[1].comparison = <<">=">>
    /\ gate_event.context.test_coverage = <<80>>
    /\ Len(gate_event.result.checks) = 1
    /\ gate_event.result.checks[1].status = "failed"
    /\ ~gate_event.result.passed

\* C19: a rule whose operator is none of the five passes whatever the actual
\* value and the threshold; a rule without comparison field passes iff the
\* actual value is at least the threshold.
C19_UnknownOperatorPasses ==
    Evaluated =>
        LET rule == gate_event.rules[1]
            r == gate_event.result
        IN  /\ (rule.comparison # Absent
                  /\ rule.comparison[1] \notin {">=", "<=", ">", "<", "=="}) =>
                   /\ Len(r.checks) = 1
                   /\ r.checks[1].status = "passed"
                   /\ r.passed
            /\ rule.comparison = Absent =>
                   /\ Len(r.checks) = 1
                   /\ (r.checks[1].status = "passed") <=>
                         (r.checks[1].actual_value >= r.checks[1].threshold)

\* A rule with the operator != passed with an actual value of 79 against a
\* threshold of 85.
C19_Witness ==
    /\ Evaluated
    /\ gate_event.rules[1].comparison = <<"!=">>
    /\ gate_event.result.checks[1].actual_value = 79
    /\ gate_event.result.checks[1].threshold = 85
    /\ gate_event.result.checks[1].status = "passed"

\* C20: when the rule's check source is a key the context does not hold, the
\* actual value is 0, the rule is compared like any other (threshold 0 with ==
\* passes) and no error outcome is produced.
C20_AbsentKeyReadsZero ==
    Evaluated =>
        LET rule == gate_event.rules[1]
            r == gate_event.result
        IN  (rule.check_function[1].kind = "key"
               /\ gate_event.context[rule.check_function[1].key] = Absent) =>
                /\ Len(r.checks) = 1
                /\ r.checks[1].actual_value = 0
                /\ r.checks[1].status \in {"passed", "failed"}
                /\ \A j \in 1..Len(r.errors) : r.errors[j].status # "error"
                /\ (rule.comparison = <<"==">>) =>
                      ((r.checks[1].status = "passed") <=> (rule.threshold = <<0>>))
                /\ (rule.comparison = <<">">>) => r.checks[1].status = "failed"

\* A rule with threshold 0 and == passed on a context without its key.
C20_Witness ==
    /\ Evaluated
    /\ gate_event.rules[1].check_function[1].kind = "key"
    /\ gate_event.context.test_coverage = Absent
    /\ gate_event.rules[1].threshold = <<0>>
    /\ gate_event.rules[1].comparison = <<"==">>
    /\ gate_event.result.checks[1].status = "passed"
    /\ gate_event.result.passed

\* An assign_optimal_task call of SpecSeq has returned.
Assigned == assign_event.op = "assign"

\* The candidates of the last call that had a capability vector, in the
\* order of the candidate list, with their scores.
Scored == assign_event.scored

\* C21: assign_optimal_task returns the registered candidate whose combined
\* score is the greatest, and the first such candidate of the list when
\* several share the greatest score.
C21_GreatestScoreReturned ==
    (Assigned /\ Scored # <<>>) =>
        \E i \in 1..Len(Scored) :
            /\ assign_event.result = Scored[i].agent
            /\ \A j \in 1..Len(Scored) :
                   ~Greater(Scored[j].total_score, Scored[i].total_score)
            /\ \A j \in 1..(i - 1) :
                   Greater(Scored[i].total_score, Scored[j].total_score)

\* C22: a call with an empty candidate list, or with no registered
\* candidate, returns no agent and leaves every workload list as it was; a
\* call never returns a candidate that has no capability vector.
C22_NoCandidateNoAssignment ==
    Assigned =>
        LET candidates == {assign_event.available[i] :
                              i \in 1..Len(assign_event.available)}
        IN  /\ candidates \cap assign_event.registered = {} =>
                   /\ assign_event.result = NoAgent
                   /\ workload_tracker = assign_event.before
            /\ assign_event.result # NoAgent =>
                   assign_event.result \in candidates \cap assign_event.registered

\* A call whose first candidate had no capability vector returned the
\* second one.
C22_Witness ==
    /\ Assigned
    /\ assign_event.available = <<"a2", "a1">>
    /\ assign_event.registered = {"a1"}
    /\ assign_event.result = "a1"
    /\ workload_tracker["a2"] = <<>>

RECURSIVE IsSubsequence(_, _)
IsSubsequence(s, t) ==
    IF s = <<>> THEN TRUE
    ELSE IF t = <<>> THEN FALSE
    ELSE IF Head(s) = Head(t) THEN IsSubsequence(Tail(s), Tail(t))
    ELSE IsSubsequence(s, Tail(t))

\* C23: a call that returns an agent leaves that agent's list as what it
\* kept of the old list followed by exactly one new entry, which holds the
\* task id, the time of the call, the task's complexity (0.5 without one) and
\* its priority (medium without one); no other list gains an entry.
C23_OneEntryAppended ==
    (Assigned /\ assign_event.result # NoAgent) =>
        LET task == assign_event.task
            list == workload_tracker[assign_event.result]
            entry == list[Len(list)]
        IN  /\ Len(list) >= 1
            /\ IsSubsequence(SubSeq(list, 1, Len(list) - 1),
                              assign_event.before[assign_event.result])
            /\ entry.task_id = task.id
            /\ entry.assigned_at = assign_event.at
            /\ entry.complexity =
                   IF task.complexity = Absent THEN 5 ELSE task.complexity[1]
            /\ entry.priority =
                   IF task.priority = Absent THEN "medium" ELSE task.priority[1]
            /\ \A a \in Agents \ {assign_event.result} :
                   IsSubsequence(workload_tracker[a], assign_event.before[a])

\* A task without complexity and priority was given to a2, which keeps its
\* two earlier entries in front of the new one; a1 has none.
C23_Witness ==
    /\ Assigned
    /\ assign_event.result = "a2"
    /\ assign_event.task.complexity = Absent
    /\ assign_event.task.priority = Absent
    /\ Len(workload_tracker["a2"]) = 3
    /\ workload_tracker["a2"][3].complexity = 5
    /\ workload_tracker["a2"][3].priority = "medium"
    /\ workload_tracker["a1"] = <<>>

\* The entries of a list that are less than 24 hours old at the given time.
Younger(list, time) ==
    SelectSeq(list, LAMBDA entry : time - entry.assigned_at < 24)

\* C24: for every candidate a call scores, the entries that are 24 hours old
\* or older at the time of the call are not in the sum behind its workload
\* factor and are no longer in its list after the call.
C24_ExpiredEntriesDropped ==
    Assigned =>
        \A i \in 1..Len(Scored) :
            LET a == Scored[i].agent
                young == Younger(assign_event.before[a], assign_event.at)
            IN  /\ Scored[i].workload_score = SumComplexity(young)
                /\ \A k \in 1..Len(workload_tracker[a]) :
                       assign_event.at - workload_tracker[a][k].assigned_at < 24
                /\ IsSubsequence(young, workload_tracker[a])

\* A call at hour 24 scored a2, whose two entries of hour 0 were exactly 24
\* hours old: they are not in the sum and not in the list.
C24_Witness ==
    /\ Assigned
    /\ assign_event.at = 24
    /\ Len(assign_event.before["a2"]) = 2
    /\ assign_event.before["a2"][1].assigned_at = 0
    /\ \E i \in 1..Len(Scored) :
           /\ Scored[i].agent = "a2"
           /\ Scored[i].workload_score = 0
           /\ ~Greater(One, Scored[i].workload_factor)
    /\ \A k \in 1..Len(workload_tracker["a2"]) :
           workload_tracker["a2"][k].assigned_at = 24

\* C25, as stated: a greater active sum always gives a strictly smaller
\* workload factor, and every factor lies in (0, 1].
C25_FactorStrictlyDecreasing ==
    /\ \A i, j \in 1..Len(Computed) :
           Computed[i].workload_score < Computed[j].workload_score =>
               Greater(Computed[i].factor, Computed[j].factor)
    /\ \A i \in 1..Len(Computed) :
           /\ Greater(Computed[i].factor, Zero)
           /\ ~Greater(Computed[i].factor, One)

\* C25: a greater active sum never gives a greater workload factor; it gives
\* a strictly smaller one when the smaller sum is below 9.0, and the factor
\* is 0.1 for every sum from 9.0 on; every factor lies in [0.1, 1].
C25_FactorDecreasingDownToFloor ==
    /\ \A i, j \in 1..Len(Computed) :
           Computed[i].workload_score < Computed[j].workload_score =>
               /\ ~Greater(Computed[j].factor, Computed[i].factor)
               /\ Computed[i].workload_score < 90 =>
                      Greater(Computed[i].factor, Computed[j].factor)
    /\ \A i \in 1..Len(Computed) :
           /\ ~Greater(Tenths(1), Computed[i].factor)
           /\ ~Greater(Computed[i].factor, One)
           /\ Computed[i].workload_score >= 90 =>
                  ~Greater(Computed[i].factor, Tenths(1))

\* The factor was computed for an active sum of 9.0 and for one of 10.0, and
\* was 0.1 both times.
C25_Witness ==
    /\ Len(Computed) = 2
    /\ Computed[1].workload_score = 90
    /\ Computed[2].workload_score = 100
    /\ ~Greater(Computed[1].factor, Computed[2].factor)
    /\ ~Greater(Computed[2].factor, Computed[1].factor)

\* The sum of the values of f over the keys in S.
RECURSIVE SumOver(_, _)
SumOver(f, S) ==
    IF S = {} THEN 0
    ELSE LET k == CHOOSE k \in S : TRUE IN f[k] + SumOver(f, S \ {k})

\* C26: the capability match of every scored candidate is 1 for a task
\* without required skills; otherwise it is 0 when the required levels sum to
\* 0 and else the sum of required level times min(1, level / required level)
\* over the required skills, a missing skill having level 0, divided by the
\* sum of the required levels.
C26_CapabilityMatchIsWeightedAverage ==
    Assigned =>
        \A i \in 1..Len(Scored) :
            LET caps == Scored[i].capabilities
                reqs == IF assign_event.task.required_skills = Absent THEN <<>>
                        ELSE assign_event.task.required_skills[1]
                skills == DOMAIN reqs
                level == [k \in skills |-> IF k \in DOMAIN caps THEN caps[k] ELSE 0]
                \* required level times min(1, level / required level)
                share == [k \in skills |->
                             IF level[k] < reqs[k] THEN level[k] ELSE reqs[k]]
                weight == SumOver(reqs, skills)
                score == Scored[i].capability_score
            IN  /\ skills = {} => score.num = score.den
                /\ (skills # {} /\ weight = 0) => score.num = 0
                /\ (skills # {} /\ weight > 0) =>
                       score.num * weight = score.den * SumOver(share, skills)

\* A task requiring x at 0.5 and y at 1.0 was scored for an agent that has x
\* at 0.9 and no y: the match is (0.5 * 1 + 1.0 * 0) / 1.5.
C26_Witness ==
    /\ Assigned
    /\ assign_event.task.required_skills = <<[x |-> 5, y |-> 10]>>
    /\ \E i \in 1..Len(Scored) :
           /\ Scored[i].capabilities = [x |-> 9]
           /\ Scored[i].capability_score = [num |-> 1, den |-> 3]

\* The call scored a1 without active workload and a2 with an active sum of
\* 2.0, both with skill x at 0.9 and the same performance factor, for a task
\* requiring x at 0.5.
IdleAgainstLoaded(i, j) ==
    /\ Assigned
    /\ assign_event.task.required_skills = <<[x |-> 5]>>
    /\ Len(Scored) = 2
    /\ Scored[i].agent = "a1"
    /\ Scored[j].agent = "a2"
    /\ Scored[i].capabilities = [x |-> 9]
    /\ Scored[j].capabilities = [x |-> 9]
    /\ Scored[i].workload_score = 0
    /\ Scored[j].workload_score = 20
    /\ Scored[i].performance_factor = Scored[j].performance_factor

\* C27: between two agents with the same capabilities and performance, the
\* one without active workload scores strictly higher than the one with an
\* active sum of 2.0 and is returned, whichever comes first in the list.
C27_IdleAgentPreferred ==
    \A i, j \in 1..2 :
        IdleAgainstLoaded(i, j) =>
            /\ Greater(Scored[i].total_score, Scored[j].total_score)
            /\ assign_event.result = "a1"

\* The loaded agent came first in the candidate list and the idle one was
\* returned.
C27_Witness ==
    /\ IdleAgainstLoaded(2, 1)
    /\ assign_event.available = <<"a2", "a1">>
    /\ assign_event.result = "a1"
    /\ Len(workload_tracker["a1"]) = 1

\* The sum of the values from position i on.
RECURSIVE TotalFrom(_, _)
TotalFrom(values, i) ==
    IF i > Len(values) THEN 0 ELSE values[i] + TotalFrom(values, i + 1)

RowsInWindow(agent_name, days) ==
    {i \in 1..Len(agent_metrics) :
        /\ agent_metrics[i].agent_name = agent_name
        /\ now - agent_metrics[i].timestamp < 24 * days}

\* The positions among them whose column is not null.
WithValue(rows, column) == {i \in rows : agent_metrics[i][column] # Absent}

RECURSIVE TotalOver(_, _)
TotalOver(rows, column) ==
    IF rows = {} THEN 0
    ELSE LET i == CHOOSE i \in rows : TRUE
         IN  agent_metrics[i][column][1] + TotalOver(rows \ {i}, column)

\* The fraction is the mean of the column over the rows that have a value
\* (values are in tenths), and 0 when no row has one.
IsMeanOf(fraction, rows, column) ==
    LET valued == WithValue(rows, column)
    IN  IF valued = {} THEN fraction.num = 0
        ELSE fraction.num * 10 * Cardinality(valued) =
                 fraction.den * TotalOver(valued, column)

\* C29: get_agent_performance_trend returns the no-data result, which has no
\* averages, when no row of the agent lies in the window; otherwise it
\* returns the number of rows in the window and, for each of the three
\* metrics, the mean of the non-null values, or 0 when all are null.
C29_NoDataOrMeans ==
    trend_event.op = "trend" =>
        LET rows == RowsInWindow(trend_event.agent_name, trend_event.days)
            result == trend_event.result
        IN  /\ rows = {} =>
                   /\ result = NoData
                   /\ DOMAIN result = {"error"}
            /\ rows # {} =>
                   /\ "error" \notin DOMAIN result
                   /\ result.data_points = Cardinality(rows)
                   /\ IsMeanOf(result.avg_response_time, rows, "response_time")
                   /\ IsMeanOf(result.avg_completion_rate, rows,
                               "task_completion_rate")
                   /\ IsMeanOf(result.avg_quality_score, rows, "quality_score")

\* The 3-day trend of a1 was asked for when the store held a row of a1 from
\* three days before and a fresh row of a2: the result is the no-data one.
C29_Witness ==
    /\ trend_event.op = "trend"
    /\ trend_event.agent_name = "a1"
    /\ trend_event.days = 3
    /\ trend_event.result = NoData
    /\ \E i \in 1..Len(agent_metrics) :
           agent_metrics[i].agent_name = "a1" /\ agent_metrics[i].timestamp < now
    /\ \E i \in 1..Len(agent_metrics) :
           agent_metrics[i].agent_name = "a2" /\ agent_metrics[i].timestamp = now

\* C30: the performance factor is 0.8 when the retrieval of the trend raises
\* and when the store has no row of the agent in the last 3 days; otherwise
\* it is the greater of 0.1 and the mean quality score of those rows. It is
\* returned in every case and is never below 0.1.
C30_PerformanceFactor ==
    trend_event.op = "factor" =>
        LET rows == RowsInWindow(trend_event.agent_name, 3)
            valued == WithValue(rows, "quality_score")
            total == TotalOver(valued, "quality_score")
            count == Cardinality(valued)
            factor == trend_event.returned
        IN  /\ (trend_event.raised \/ rows = {}) => factor.num * 10 = factor.den * 8
            /\ (~trend_event.raised /\ rows # {}) =>
                   IF total > count
                      THEN factor.num * 10 * count = factor.den * total
                      ELSE factor.num * 10 = factor.den
            /\ factor.num * 10 >= factor.den

\* The retrieval raised for an agent with a fresh sample of quality 0.9, and
\* the factor is 0.8.
C30_Witness ==
    /\ trend_event.op = "factor"
    /\ trend_event.raised
    /\ \E i \in RowsInWindow(trend_event.agent_name, 3) :
           agent_metrics[i].quality_score = <<9>>
    /\ trend_event.returned = Tenths(8)

\* The step is handle_unhealthy_agent returning.
Handled == pc = "handle" /\ pc' # "handle"

\* The step is check_agent_health returning.
Probed == pc = "check" /\ pc' # "check"

\* The strategy name in the config is neither restart nor notify_only nor a
\* key of recovery_strategies.
UnknownStrategy(config) ==
    /\ config.recovery_strategy # Absent
    /\ config.recovery_strategy[1] \notin {"restart", "notify_only"}
    /\ config.recovery_strategy[1] \notin recovery_strategies

\* C31: handle_unhealthy_agent for an agent whose strategy name is neither
\* restart nor notify_only nor registered does nothing to the agent's pane,
\* raises nothing and leaves every record, last_response included, as it was.
C31_UnknownStrategyIsNoOp ==
    [][(Handled /\ UnknownStrategy(health_checks[cur].config)) =>
          /\ health_checks' = health_checks
          /\ event'.agent = cur
          /\ event'.steps = <<>>
          /\ event'.dispatched = "none"
          /\ event'.outcome = "none"
          /\ pc' = "iter"]_vars

\* An agent with an unregistered strategy name reached its threshold some
\* hours after its last response; the handler entered the recovery branch and
\* the record is as it was.
C31_Witness ==
    /\ event.op = "handle"
    /\ event.entered
    /\ event.strategy = "custom"
    /\ event.dispatched = "none"
    /\ "custom" \notin recovery_strategies
    /\ Failures(event.agent) = event.failures
    /\ event.failures >= event.max_failures
    /\ health_checks[event.agent].last_response < now

\* C32: a restart interrupts, waits, relaunches, waits and sends the
\* reinitialization message, in this order and on the agent it recovers,
\* stopping at the first step that raises; the counter is lowered only by a
\* restart that got as far as sending the message.
C32_RestartOrder ==
    (event.op = "handle" /\ event.dispatched = "restart") =>
        LET steps == event.steps
            order == <<"interrupt", "wait", "relaunch", "wait", "send_reinit">>
        IN  /\ Len(steps) \in 1..Len(order)
            /\ \A i \in 1..Len(steps) :
                   /\ steps[i].op = order[i]
                   /\ steps[i].agent = event.agent
            /\ \A i, j \in 1..Len(steps) :
                   (steps[i].op = "send_reinit" /\ steps[j].op = "relaunch") => j < i
            /\ ~RestartRaised(event.outcome) => Len(steps) = Len(order)
            /\ Failures(event.agent) < event.failures =>
                   steps[Len(steps)].op = "send_reinit"

\* A restart went through its five steps and the counter is 0.
C32_Witness ==
    /\ event.op = "handle"
    /\ event.dispatched = "restart"
    /\ event.outcome = "send_true"
    /\ Len(event.steps) = 5
    /\ event.steps[5] = [op |-> "send_reinit", agent |-> event.agent]
    /\ event.failures >= 1
    /\ Failures(event.agent) = 0

\* C33: a probe that finds the marker leaves the agent with counter 0 and
\* last_response at the time of the probe, whatever they were, and goes on to
\* the next agent without calling handle_unhealthy_agent; register_agent
\* leaves the agent with counter 0 and last_response at the time of the call.
C33_MarkerFoundResets ==
    [][/\ (Probed /\ event'.outcome = "marker_found") =>
             /\ event'.agent = cur
             /\ health_checks'[cur].consecutive_failures = 0
             /\ health_checks'[cur].last_response = now
             /\ health_checks'[cur].config = health_checks[cur].config
             /\ pc' = "iter"
             /\ pending' # cur
       /\ (event'.op = "register" /\ event' # event) =>
             /\ health_checks'[event'.agent] # NotRegistered
             /\ health_checks'[event'.agent].consecutive_failures = 0
             /\ health_checks'[event'.agent].last_response = now
             /\ 0 < MaxFailuresOf(health_checks'[event'.agent].config)]_vars

\* A probe at hour 24 found the marker for an agent that had failed three
\* probes and had last responded before.
C33_Witness ==
    /\ event.op = "probe"
    /\ event.outcome = "marker_found"
    /\ event.before = 3
    /\ Failures(event.agent) = 0
    /\ health_checks[event.agent].last_response = 24
    /\ now = 24
    /\ pc = "iter"

\* C34: a record_agent_metrics call leaves the rows of the table as they
\* were and adds one row after them; every other step leaves the table as it
\* was.
C34_MetricsAppendOnly ==
    [][IF trend_event'.op = "record"
          THEN /\ Len(agent_metrics') = Len(agent_metrics) + 1
               /\ SubSeq(agent_metrics', 1, Len(agent_metrics)) = agent_metrics
          ELSE agent_metrics' = agent_metrics]_vars

\* A third row was recorded after a trend query and two older rows, which
\* are still there.
C34_Witness ==
    /\ trend_event.op = "record"
    /\ Len(agent_metrics) = 3
    /\ agent_metrics[1].timestamp = 0
    /\ agent_metrics[2].agent_name = "a2"
    /\ agent_metrics[3].timestamp = 72

\* C35: handle_unhealthy_agent under notify_only leaves every record as it
\* was; it notifies whenever the counter is at or above max_failures, so
\* after every failed probe from the threshold on, and the counter it sees is
\* the number of failed probes since the agent last responded or was
\* registered.
C35_NotifyOnlyKeepsCounter ==
    [][(Handled /\ StrategyOf(health_checks[cur].config) = "notify_only") =>
          /\ health_checks' = health_checks
          /\ event'.steps = <<>>
          /\ event'.failures = event'.streak
          /\ (event'.dispatched = "notify_only") <=>
                 (Failures(cur) >= MaxFailuresOf(health_checks[cur].config))
          /\ event'.dispatched \in {"notify_only", "none"}]_vars

\* The notification was issued for an agent whose counter, at 3, had grown
\* past its max_failures of 1, and the counter is still 3.
C35_Witness ==
    /\ event.op = "handle"
    /\ event.dispatched = "notify_only"
    /\ event.max_failures = 1
    /\ event.failures = 3
    /\ Failures(event.agent) = 3
    /\ health_checks[event.agent].last_response < now

\* C36: a call returns an agent iff one of the candidates with a capability
\* vector has a combined score above 0; when there are such candidates and
\* all of them score 0 no agent is returned and no list gains an entry.
C36_AssignedIffPositiveScore ==
    Assigned =>
        LET positive == {i \in 1..Len(Scored) :
                            Greater(Scored[i].total_score, Zero)}
        IN  /\ (assign_event.result # NoAgent) <=> (positive # {})
            /\ positive = {} =>
                   \A a \in Agents :
                       IsSubsequence(workload_tracker[a], assign_event.before[a])

\* Both candidates have capability vectors, the task requires x at level 0,
\* both score 0 and no agent was returned.
C36_Witness ==
    /\ Assigned
    /\ assign_event.task.required_skills = <<[x |-> 0]>>
    /\ Len(Scored) = 2
    /\ \A i \in 1..2 : Scored[i].total_score.num = 0
    /\ assign_event.result = NoAgent
    /\ workload_tracker = assign_event.before

\* C37: when a cycle of check_all_agents ends, every agent that was in the
\* registry when the cycle started has been probed in it.
C37_CycleProbesAllRegistered ==
    event.op = "cycle_end" =>
        \A i \in 1..iter_size : health_keys[i] \in checked

\* C38: an assign_optimal_task call leaves the capability vectors as they
\* were; every entry less than 24 hours old stays in its list, the lists of
\* the agents that are not returned only lose entries, the list of every
\* scored candidate loses its expired entries also when no agent is returned,
\* and the list of an agent that is not scored is left as it was.
C38_OnlyExpiredEntriesRemoved ==
    [][(assign_event'.op = "assign" /\ assign_event' # assign_event) =>
          LET call == assign_event'
              scored == {call.scored[i].agent : i \in 1..Len(call.scored)}
          IN  /\ agent_capabilities' = agent_capabilities
              /\ \A a \in Agents :
                     /\ IsSubsequence(Younger(workload_tracker[a], now),
                                       workload_tracker'[a])
                     /\ a # call.result =>
                            IsSubsequence(workload_tracker'[a], workload_tracker[a])
                     /\ (a \in scored /\ a # call.result) =>
                            workload_tracker'[a] = Younger(workload_tracker[a], now)
                     /\ a \notin scored =>
                            workload_tracker'[a] = workload_tracker[a]]_vars

\* A call at hour 24 scored a2, returned no agent and emptied a2's list of
\* its two entries of hour 0.
C38_Witness ==
    /\ Assigned
    /\ assign_event.at = 24
    /\ assign_event.result = NoAgent
    /\ \E i \in 1..Len(Scored) : Scored[i].agent = "a2"
    /\ Len(assign_event.before["a2"]) = 2
    /\ workload_tracker["a2"] = <<>>

\* The last_response of the agent is written by this step: the agent is
\* new in the registry or its last_response differs.
ResponseWritten(a) ==
    /\ health_checks'[a] # NotRegistered
    /\ \/ ~Registered(a)
       \/ health_checks'[a].last_response # health_checks[a].last_response

\* C39: last_response of an agent is written only by register_agent for the
\* agent, by a probe of the agent that finds the marker and by a restart of
\* the agent in which nothing raises; a failed probe and a recovery that is
\* not such a restart leave every last_response as it was.
C39_LastResponseWriters ==
    [][/\ \A a \in Agents :
             ResponseWritten(a) =>
                 \/ event'.op = "register" /\ event'.agent = a
                 \/ ResetByProbeOrRecovery(a)
       /\ (Probed /\ event'.outcome # "marker_found") =>
             \A a \in RegisteredAgents :
                 health_checks'[a].last_response = health_checks[a].last_response
       /\ (Handled /\ ~(event'.dispatched = "restart"
                          /\ ~RestartRaised(event'.outcome))) =>
             \A a \in RegisteredAgents :
                 health_checks'[a].last_response = health_checks[a].last_response]_vars

\* A restart at hour 12 whose reinitialization message was not delivered
\* wrote last_response; the other agent's is still the one of hour 0.
C39_Witness ==
    /\ event.op = "handle"
    /\ event.dispatched = "restart"
    /\ event.outcome = "send_false"
    /\ now = 12
    /\ health_checks[event.agent].last_response = 12
    /\ \E b \in RegisteredAgents \ {event.agent} :
           health_checks[b].last_response = 0

\* C40: when the agent has rows in the 3-day window and none of them has a
\* quality score, the average quality score of the trend is 0 and the
\* performance factor is 0.1; when it has no row in the window the factor is
\* 0.8.
C40_NullQualityGivesFloor ==
    /\ trend_event.op = "trend" =>
           LET rows == RowsInWindow(trend_event.agent_name, trend_event.days)
           IN  (rows # {} /\ WithValue(rows, "quality_score") = {}) =>
                   /\ "avg_quality_score" \in DOMAIN trend_event.result
                   /\ trend_event.result.avg_quality_score.num = 0
    /\ (trend_event.op = "factor" /\ ~trend_event.raised) =>
           LET rows == RowsInWindow(trend_event.agent_name, 3)
               factor == trend_event.returned
           IN  /\ (rows # {} /\ WithValue(rows, "quality_score") = {}) =>
                      factor.num * 10 = factor.den
               /\ rows = {} => factor.num * 10 = factor.den * 8

\* The factor of an agent whose two rows in the window have no quality
\* score is 0.1.
C40_Witness ==
    /\ trend_event.op = "factor"
    /\ ~trend_event.raised
    /\ Cardinality(RowsInWindow(trend_event.agent_name, 3)) = 2
    /\ WithValue(RowsInWindow(trend_event.agent_name, 3), "quality_score") = {}
    /\ trend_event.returned = Tenths(1)

====
